---- MODULE Spec2Model ----
(***************************************************************************)
(* llm-txt-gen: URL discovery (sitemap parsing, link-following crawl) and   *)
(* the classifier/formatter.                                                *)
(*                                                                          *)
(* Strings are sequences of tokens.  A token is a maximal run of word       *)
(* characters ("about", "pdf"), one punctuation character ("/", "#", "?",   *)
(* ".", "-", " ") or a scheme-and-host prefix ("https://example.com").      *)
(* Numbers that the program keeps as floats with one decimal (sitemap       *)
(* priorities) are kept in tenths: 1.0 is 10, 0.5 is 5.                     *)
(***************************************************************************)
EXTENDS Integers, Sequences, FiniteSets, TLC

\* ------------------------------------------------------------------ bounds

\* Longest list of <a href> links one fetched page carries.
MaxLinks == 3

\* Largest limit passed to crawlSite / parseSitemapXml.
MaxLimit == 3

\* Longest list of <url> elements in the document handed to parseSitemapXml.
MaxUrls == 3

\* Longest list of <sitemap> children in the index handed to parseSitemapXml.
MaxKids == 2

\* ------------------------------------------------------- string primitives

\* The empty string.
Empty == <<>>

\* Index of the first token of s that is in set T, 0 when there is none.
FirstIn(s, T) ==
  IF \E i \in 1..Len(s) : s[i] \in T
  THEN CHOOSE i \in 1..Len(s) : s[i] \in T /\ \A j \in 1..(i - 1) : s[j] \notin T
  ELSE 0

\* s.split(t)[0]: the text before the first t.
SplitFirst(s, t) ==
  IF FirstIn(s, {t}) = 0 THEN s ELSE SubSeq(s, 1, FirstIn(s, {t}) - 1)

\* s.replace(/\/$/, ''): one trailing slash removed.
StripTrailingSlash(s) ==
  IF Len(s) > 0 /\ s[Len(s)] = "/" THEN SubSeq(s, 1, Len(s) - 1) ELSE s

\* Lower-casing of a word token (the i flag of the regular expressions).
ToLower(w) ==
  CASE w = "PDF" -> "pdf"
    [] w = "JPG" -> "jpg"
    [] w = "Pricing" -> "pricing"
    [] w = "Docs" -> "docs"
    [] w = "Acme" -> "acme"
    [] w = "ACME" -> "acme"
    [] w = "Sitemap:" -> "sitemap:"
    [] w = "Browse" -> "browse"
    [] w = "Royalty" -> "royalty"
    [] w = "Available" -> "available"
    [] OTHER -> w

\* ---------------------------------------------------------------- WHATWG URL

\* Scheme-and-host prefixes; the origin of such a URL is the prefix itself.
HostTokens == {"https://example.com", "https://external.com"}

\* new URL(s) succeeds: a scheme-and-host prefix followed by nothing, a path, a
\* query or a fragment; or an opaque "mailto:" address.
URLValid(s) ==
  IF Len(s) = 0 THEN FALSE
  ELSE IF s[1] = "mailto:" THEN TRUE
  ELSE IF s[1] \notin HostTokens THEN FALSE
  ELSE IF Len(s) = 1 THEN TRUE
  ELSE s[2] \in {"/", "?", "#"}

\* new URL(s).origin ("null" for an opaque scheme).
URLOrigin(s) == IF s[1] \in HostTokens THEN s[1] ELSE "null"

\* What follows the scheme-and-host prefix.
URLRest(s) == SubSeq(s, 2, Len(s))

\* new URL(s).pathname: up to the query or fragment; "/" when the path is empty.
URLPathname(s) ==
  LET rest == URLRest(s)
      cut  == FirstIn(rest, {"?", "#"})
      p    == IF cut = 0 THEN rest ELSE SubSeq(rest, 1, cut - 1)
  IN  IF s[1] \in HostTokens /\ p = Empty THEN <<"/">> ELSE p

\* The query and fragment of s, as written.
URLSearchHash(s) ==
  LET rest == URLRest(s)
      cut  == FirstIn(rest, {"?", "#"})
  IN  IF cut = 0 THEN Empty ELSE SubSeq(rest, cut, Len(rest))

\* new URL(s).href: the serialisation, with the root path made explicit.
URLHref(s) == <<s[1]>> \o URLPathname(s) \o URLSearchHash(s)

\* new URL(href, base).href for a valid base: an absolute href stands alone, a
\* path-absolute one replaces path, query and fragment, a query replaces query
\* and fragment, a fragment replaces the fragment.  Empty when the constructor
\* throws.
URLResolve(href, base) ==
  CASE href = Empty -> URLHref(base)
    [] href # Empty /\ URLValid(href) -> URLHref(href)
    [] href # Empty /\ ~URLValid(href) /\ href[1] = "/" -> URLHref(<<base[1]>> \o href)
    [] href # Empty /\ ~URLValid(href) /\ href[1] = "?" ->
         <<base[1]>> \o URLPathname(base) \o href
    [] href # Empty /\ ~URLValid(href) /\ href[1] = "#" ->
         SplitFirst(URLHref(base), "#") \o href
    [] OTHER -> Empty

\* ------------------------------------------------------------- crawler.ts

\* The extensions SKIP_EXTENSIONS names.
SkipExtensionWords ==
  {"pdf", "jpg", "jpeg", "png", "gif", "svg", "webp", "css", "js", "ico", "xml",
   "json", "zip", "tar", "gz", "woff", "woff2", "ttf"}

\* SKIP_EXTENSIONS.test(s): a dot, one of the extensions in any letter case, then
\* a question mark or the end of the text.
SKIP_EXTENSIONS(s) ==
  \E i \in 1..(Len(s) - 1) :
    /\ s[i] = "."
    /\ ToLower(s[i + 1]) \in SkipExtensionWords
    /\ IF i + 1 = Len(s) THEN TRUE ELSE s[i + 2] = "?"

\* Priority of the home page entry (1.0) and of every other entry (0.5), in tenths.
PriorityHome == 10
PriorityOther == 5

\* Base URLs handed to crawlSite: the bare origin, the origin with its slash, a
\* page, a page with a trailing slash, a page with a fragment, and a text that
\* is no URL.
BaseUrls ==
  { <<"https://example.com">>,
    <<"https://example.com", "/">>,
    <<"https://example.com", "/", "docs">>,
    <<"https://example.com", "/", "docs", "/">>,
    <<"https://example.com", "/", "about", "#", "team">>,
    <<"not a url">> }

\* href attributes a fetched page may carry: the root, a page, the same page
\* with a fragment, two static assets, an external page, an absolute internal
\* page, a fragment alone, an href the URL constructor rejects, an empty href.
Hrefs ==
  { <<"/">>,
    <<"/", "about">>,
    <<"/", "about", "#", "team">>,
    <<"/", "file", ".", "pdf">>,
    <<"/", "image", ".", "JPG", "?", "v">>,
    <<"https://external.com", "/", "page">>,
    <<"https://example.com", "/", "docs">>,
    <<"#", "top">>,
    <<"http://">>,
    Empty }

\* Every list of at most n elements of S.
SeqsUpTo(S, n) == UNION { [1..k -> S] : k \in 0..n }

VARIABLES
  baseUrl,    \* crawlSite's baseUrl argument
  limit,      \* crawlSite's limit argument
  origin,     \* new URL(baseUrl).origin
  visited,    \* the set of fragment-stripped URLs dequeued so far
  queue,      \* the URLs waiting to be fetched, oldest first
  entries,    \* the SitemapEntry list built so far
  pc,         \* where crawlSite is: "init", "loop", "fetch", "links", "done", "threw"
  cur,        \* the URL being fetched and scanned for links (normalized)
  linkNo,     \* how many hrefs of the current page the each() callback has seen
  fetchLog,   \* every URL passed to fetchPage, in call order
  failed,     \* the URLs whose fetchPage call threw
  enqueued,   \* the URLs link discovery pushed on the queue, in push order
  skipped     \* why links were not pushed so far: the conditions that rejected one

crawlVars ==
  <<baseUrl, limit, origin, visited, queue, entries, pc, cur, linkNo, fetchLog,
    failed, enqueued, skipped>>

VARIABLES
  smMode,     \* the entry point called: "parse" (parseSitemapXml) or "fetch" (fetchSitemap)
  smXml,      \* parseSitemapXml's xml argument, as the two lists its selectors yield
  smUrl,      \* fetchSitemap's sitemapUrl argument
  smLimit,    \* the limit argument of the entry point
  smWeb,      \* what each sitemap URL answers; "unknown" until first fetched
  smStack,    \* the parseSitemapXml calls expanding an index, innermost last
  smPc,       \* where the call is: "init", "run", "done", "threw", "recurs"
  smResult,   \* the list the entry point returned
  smFetchLog, \* every URL passed to fetch, in call order
  smRootGot,  \* what each child of the outermost index contributed, in order
  smError     \* the Error the entry point threw

smVars ==
  <<smMode, smXml, smUrl, smLimit, smWeb, smStack, smPc, smResult, smFetchLog,
    smRootGot, smError>>

VARIABLES
  fmtSiteName,    \* formatLlmTxt's siteName option
  fmtDescription, \* its siteDescription option
  fmtPages,       \* its pages option: the PageData records, in input order
  fmtGeneratedAt, \* its generatedAt option as an ISO text; empty when it is left out
  fmtPc,          \* where the call is: "init", "done"
  fmtLines        \* the lines array that is joined into the returned text

fmtVars ==
  <<fmtSiteName, fmtDescription, fmtPages, fmtGeneratedAt, fmtPc, fmtLines>>

VARIABLES
  dsBaseUrl,    \* discoverSitemapUrl's baseUrl argument
  dsPc,         \* where the call is: "robots", "probe", "done", "threw"
  dsCandidates, \* the candidates array
  dsIdx,        \* the position in candidates of the next one to fetch
  dsResult,     \* what the call returned: found is FALSE for null
  dsRobots,     \* the answer the robots.txt fetch got
  dsLog         \* every candidate fetched, in call order, with its answer

dsVars == <<dsBaseUrl, dsPc, dsCandidates, dsIdx, dsResult, dsRobots, dsLog>>

VARIABLES
  runUrl,        \* run's url argument
  runSitemapOpt, \* opts.sitemap; empty when the option is not given
  runLimit,      \* parseInt(opts.limit, 10)
  runMode,       \* opts.firecrawl and opts.browser: "plain", "browser", "firecrawl", "both"
  runConfig,     \* what loadConfig finds: "missing", "valid", "broken"
  runExcluded,   \* new Set(config.exclude ?? [])
  runPc,         \* where run is: "start", "discover", "fetchSitemap", "crawl",
                 \* "urls", "firecrawl", "pages", "done", "exit"
  runCalls,      \* the functions discoverUrls has called, in call order
  runSitemapUrl, \* discoverUrls' sitemapUrl: what discoverSitemapUrl returned
  runUrls,       \* what discoverUrls returned
  runError,      \* the error the action handler caught
  runExit        \* the code passed to process.exit; -1 while the process runs

runVars ==
  <<runUrl, runSitemapOpt, runLimit, runMode, runConfig, runExcluded, runPc,
    runCalls, runSitemapUrl, runUrls, runError, runExit>>

VARIABLES
  ftMode,          \* the fetcher: "http" (processInBatches) or "browser" (fetchPagesWithBrowser)
  ftUrls,          \* the URL list
  ftConcurrency,   \* the batch size
  ftOverride,      \* config.overrides: the title configured for the first URL, or empty
  ftPc,            \* where the call is: "launch", "loop", "batch", "closing",
                   \* "returned", "threw"
  ftI,             \* the loop variable i
  ftTask,          \* per URL position, where its task is: "idle", "fetch", "text",
                   \* "newPage", "goto", "content", "close", "fulfilled", "rejected"
  ftValue,         \* per URL position, what its task resolved to (http)
  ftResults,       \* the results array
  ftTab,           \* per URL position, its tab: "none", "open", "closed", "close failed"
  ftBrowser,       \* the browser: "none", "open", "closed"
  ftBrowserCloses, \* how many times browser.close() was called
  ftPending,       \* the stage whose rejection is on its way out of the call
  ftFailed         \* per URL position, the stage that failed for it, or "none"

ftVars ==
  <<ftMode, ftUrls, ftConcurrency, ftOverride, ftPc, ftI, ftTask, ftValue,
    ftResults, ftTab, ftBrowser, ftBrowserCloses, ftPending, ftFailed>>

\* ai.ts, generateDescriptions
VARIABLES
  aiPages,         \* the pages argument
  aiPc,            \* where the call is: "idle", "loop", "returned"
  aiIdx,           \* how many pages the for loop has been through
  aiResults,       \* the results array
  aiReplies        \* what the provider did for each page so far, in order

aiVars == <<aiPages, aiPc, aiIdx, aiResults, aiReplies>>

\* formatter.ts, formatLlmFullTxt
VARIABLES
  fullSiteName,    \* opts.siteName
  fullPages,       \* opts.pages
  fullPc,          \* "idle", "init" before the call, "done" after it
  fullLines        \* the sections array, the summary spread into its lines

fullVars == <<fullSiteName, fullPages, fullPc, fullLines>>

\* formatter.ts, cleanTitle
VARIABLES
  ctTitle,         \* the title argument
  ctSiteName,      \* the siteName argument
  ctPc,            \* "idle", "init" before the call, "done" after it
  ctResult         \* the text returned

ctVars == <<ctTitle, ctSiteName, ctPc, ctResult>>

VARIABLES
  runFetched,    \* the URLs handed to page fetching and extraction, in order
  runPages,      \* validPages, which without --ai is finalPages
  runDoc         \* the lines of llm.txt

outVars == <<runFetched, runPages, runDoc>>

VARIABLES
  exUrl,      \* the url argument of extractPageData
  exHtml,     \* the markup: its title and the elements of its body, in document order
  exPc,       \* "idle", "init" or "done"
  exData      \* the PageData returned

exVars == <<exUrl, exHtml, exPc, exData>>

VARIABLES
  poPc,        \* "idle", "polling", "returned" or "threw"
  poAttempt,   \* the polls issued so far: the loop variable attempt
  poAllPages,  \* allPages
  poServed,    \* the data of all answered polls so far, in order
  poResult,    \* what pollCrawl returned
  poError      \* what it threw

poVars == <<poPc, poAttempt, poAllPages, poServed, poResult, poError>>

VARIABLES
  ovMode,      \* "idle", "firecrawl", "browser" or "plain"
  ovRaw,       \* what the fetcher of the mode yielded per URL: a page record or null
  ovExcluded,  \* config.exclude
  ovOverrides, \* config.overrides: a function from URLs to the fields set
  ovAi,        \* opts.ai and the key: "none", "unknown", "no key" or "key"
  ovPc,        \* "idle", "start", "valid", "final", "done" or "exit"
  ovValid,     \* validPages
  ovReplies,   \* what the provider did per page of validPages
  ovFinal,     \* finalPages
  ovDoc        \* the lines of llm.txt

ovVars == <<ovMode, ovRaw, ovExcluded, ovOverrides, ovAi, ovPc, ovValid, ovReplies,
            ovFinal, ovDoc>>

vars == <<crawlVars, smVars, fmtVars, dsVars, runVars, ftVars, aiVars, fullVars, ctVars, outVars, exVars, poVars, ovVars>>

\* What a crawlSite step leaves alone.
crawlOthers == <<smVars, fmtVars, dsVars, runVars, ftVars, aiVars, fullVars, ctVars, outVars, exVars, poVars, ovVars>>

\* What a sitemap step leaves alone.
smOthers == <<crawlVars, fmtVars, dsVars, runVars, ftVars, aiVars, fullVars, ctVars, outVars, exVars, poVars, ovVars>>

\* What a formatter step leaves alone.
fmtOthers == <<crawlVars, smVars, dsVars, runVars, ftVars, aiVars, fullVars, ctVars, outVars, exVars, poVars, ovVars>>

\* What a discoverSitemapUrl step leaves alone.
dsOthers == <<crawlVars, smVars, fmtVars, runVars, ftVars, aiVars, fullVars, ctVars, outVars, exVars, poVars, ovVars>>

\* What the override and enrichment stage of run leaves alone.
ovOthers == <<crawlVars, smVars, fmtVars, dsVars, runVars, ftVars, aiVars, fullVars, ctVars, outVars, exVars, poVars>>

\* Everything but the pollCrawl call.
poOthers == <<crawlVars, smVars, fmtVars, dsVars, runVars, ftVars, aiVars, fullVars, ctVars, outVars, exVars, ovVars>>

\* Everything but the extractPageData call.
exOthers == <<crawlVars, smVars, fmtVars, dsVars, runVars, ftVars, aiVars, fullVars, ctVars, outVars, poVars, ovVars>>

\* Everything but the pages and the document of run.
outOthers == <<crawlVars, smVars, fmtVars, dsVars, runVars, ftVars, aiVars, fullVars, ctVars, exVars, poVars, ovVars>>

\* What a call of cleanTitle leaves alone.
ctOthers == <<crawlVars, smVars, fmtVars, dsVars, runVars, ftVars, aiVars, fullVars, outVars, exVars, poVars, ovVars>>

\* What formatLlmFullTxt leaves alone.
fullOthers == <<crawlVars, smVars, fmtVars, dsVars, runVars, ftVars, aiVars, ctVars, outVars, exVars, poVars, ovVars>>

\* What a step of generateDescriptions leaves alone.
aiOthers == <<crawlVars, smVars, fmtVars, dsVars, runVars, ftVars, fullVars, ctVars, outVars, exVars, poVars, ovVars>>

\* What no step of run or discoverUrls touches; the functions they call have
\* their own state.
runOthers == <<fmtVars, ftVars, aiVars, fullVars, ctVars, outVars, exVars, poVars, ovVars>>

\* What a page-fetching step leaves alone.
ftOthers == <<crawlVars, smVars, fmtVars, dsVars, runVars, aiVars, fullVars, ctVars, outVars, exVars, poVars, ovVars>>

\* The return value null.
NotFound == [found |-> FALSE, url |-> Empty]

\* No answer: the fetch was not made.
NoAnswer == [net |-> "none", status |-> 0, readable |-> FALSE, body |-> <<>>, url |-> <<>>]

\* No error.
NoError == [kind |-> "none", url |-> Empty, status |-> 0]

\* run is not called.
RunIdle ==
  /\ runUrl = Empty
  /\ runSitemapOpt = Empty
  /\ runLimit = 0
  /\ runMode = "plain"
  /\ runConfig = "missing"
  /\ runExcluded = {}
  /\ runPc = "idle"
  /\ runCalls = <<>>
  /\ runSitemapUrl = NotFound
  /\ runUrls = <<>>
  /\ runError = NoError
  /\ runExit = -1

\* No page is being fetched.
FtIdle ==
  /\ ftMode = "none"
  /\ ftUrls = <<>>
  /\ ftConcurrency = 0
  /\ ftOverride = Empty
  /\ ftPc = "idle"
  /\ ftI = 0
  /\ ftTask = <<>>
  /\ ftValue = <<>>
  /\ ftResults = <<>>
  /\ ftTab = <<>>
  /\ ftBrowser = "none"
  /\ ftBrowserCloses = 0
  /\ ftPending = "none"
  /\ ftFailed = <<>>

\* formatLlmFullTxt is not called.
FullIdle ==
  /\ fullSiteName = Empty
  /\ fullPages = <<>>
  /\ fullPc = "idle"
  /\ fullLines = <<>>

\* cleanTitle is not called on its own.
CtIdle ==
  /\ ctTitle = Empty
  /\ ctSiteName = Empty
  /\ ctPc = "idle"
  /\ ctResult = Empty

\* run has fetched no page and written no document.
OutIdle ==
  /\ runFetched = <<>>
  /\ runPages = <<>>
  /\ runDoc = <<>>

\* extractPageData is not called.
ExIdle ==
  /\ exUrl = Empty
  /\ exHtml = [title |-> Empty, body |-> <<>>]
  /\ exPc = "idle"
  /\ exData = [url |-> Empty, title |-> Empty, description |-> Empty, h1 |-> Empty,
               content |-> Empty]

\* pollCrawl is not called.
PoIdle ==
  /\ poPc = "idle"
  /\ poAttempt = 0
  /\ poAllPages = <<>>
  /\ poServed = <<>>
  /\ poResult = <<>>
  /\ poError = NoError

\* The override and enrichment stage of run is not modelled.
OvIdle ==
  /\ ovMode = "idle"
  /\ ovRaw = <<>>
  /\ ovExcluded = {}
  /\ ovOverrides = <<>>
  /\ ovAi = "none"
  /\ ovPc = "idle"
  /\ ovValid = <<>>
  /\ ovReplies = <<>>
  /\ ovFinal = <<>>
  /\ ovDoc = <<>>

\* generateDescriptions is not called.
AiIdle ==
  /\ aiPages = <<>>
  /\ aiPc = "idle"
  /\ aiIdx = 0
  /\ aiResults = <<>>
  /\ aiReplies = <<>>

\* discoverSitemapUrl is not called.
DsIdle ==
  /\ dsBaseUrl = Empty
  /\ dsPc = "idle"
  /\ dsCandidates = <<>>
  /\ dsIdx = 0
  /\ dsResult = NotFound
  /\ dsRobots = NoAnswer
  /\ dsLog = <<>>

\* formatLlmTxt is not called.
FmtIdle ==
  /\ fmtSiteName = Empty
  /\ fmtDescription = Empty
  /\ fmtPages = <<>>
  /\ fmtGeneratedAt = Empty
  /\ fmtPc = "idle"
  /\ fmtLines = <<>>

\* The seed without the trailing slash removed.
SeedNoStrip(b) == b

\* The first queue element: baseUrl.replace(/\/$/, '') || origin.
Seed(b) ==
  IF StripTrailingSlash(b) = Empty THEN <<URLOrigin(b)>> ELSE StripTrailingSlash(b)

\* The loop condition with the limit test off by one.
LoopCondOffByOne(q, es, lim) == Len(q) > 0 /\ Len(es) <= lim

\* The while condition of crawlSite.
LoopCond(q, es, lim) == Len(q) > 0 /\ Len(es) < lim

\* queue.shift() that leaves the element on the queue.
ShiftPeek(q) == [item |-> Head(q), rest |-> q]

\* queue.shift(): the first element, and the queue without it.
Shift(q) == [item |-> Head(q), rest |-> Tail(q)]

\* isHome: new URL(normalized).pathname === '/' || normalized === origin.
IsHome(normalized, org) ==
  URLPathname(normalized) = <<"/">> \/ normalized = <<org>>

\* The entry pushed for a fetched page.
CrawlEntry(normalized, org) ==
  [url |-> normalized,
   priority |-> IF IsHome(normalized, org) THEN PriorityHome ELSE PriorityOther]

\* The elements of list q, as a set.
Range(q) == { q[i] : i \in 1..Len(q) }

\* The push condition without the queue membership test.
ShouldEnqueueNoQueueTest(abs, clean, org, vis, q) ==
  /\ URLOrigin(abs) = org
  /\ clean \notin vis
  /\ ~SKIP_EXTENSIONS(URLPathname(abs))

\* The push condition without the origin test.
ShouldEnqueueAnyOrigin(abs, clean, org, vis, q) ==
  /\ clean \notin vis
  /\ clean \notin Range(q)
  /\ ~SKIP_EXTENSIONS(URLPathname(abs))

\* The condition under which a resolved link is pushed: same origin, not
\* visited, not queued, no skipped extension in its path.
ShouldEnqueue(abs, clean, org, vis, q) ==
  /\ URLOrigin(abs) = org
  /\ clean \notin vis
  /\ clean \notin Range(q)
  /\ ~SKIP_EXTENSIONS(URLPathname(abs))

\* The callback of $('a[href]').each for one href: the queue afterwards.
EnqueueLink(href, normalized, org, vis, q) ==
  IF href = Empty THEN q
  ELSE LET abs == URLResolve(href, normalized)
       IN  IF abs = Empty THEN q
           ELSE LET clean == SplitFirst(abs, "#")
                IN  IF ShouldEnqueue(abs, clean, org, vis, q)
                    THEN Append(q, clean)
                    ELSE q

\* Which test of the push condition rejected href (the first false conjunct),
\* "push" when none did, "none" for an empty or unparseable href.
LinkVerdict(href, normalized, org, vis, q) ==
  IF href = Empty \/ URLResolve(href, normalized) = Empty THEN "none"
  ELSE LET abs   == URLResolve(href, normalized)
           clean == SplitFirst(abs, "#")
       IN  IF URLOrigin(abs) # org THEN "origin"
           ELSE IF clean \in vis THEN "visited"
           ELSE IF clean \in Range(q) THEN "queued"
           ELSE IF SKIP_EXTENSIONS(URLPathname(abs)) THEN "extension"
           ELSE "push"

\* No sitemap call is under way.
\* Neither fetchSitemap nor parseSitemapXml is called.
SmIdle ==
  /\ smMode = "none"
  /\ smXml = [kids |-> Empty, urls |-> Empty]
  /\ smUrl = Empty
  /\ smLimit = 0
  /\ smWeb = [u \in {} |-> 0]
  /\ smStack = Empty
  /\ smPc = "idle"
  /\ smResult = Empty
  /\ smFetchLog = Empty
  /\ smRootGot = Empty
  /\ smError = NoError

CrawlInit ==
  /\ baseUrl \in BaseUrls
  /\ limit \in 0..MaxLimit
  /\ origin = "null"
  /\ visited = {}
  /\ queue = Empty
  /\ entries = Empty
  /\ pc = "init"
  /\ cur = Empty
  /\ linkNo = 0
  /\ fetchLog = Empty
  /\ failed = {}
  /\ enqueued = Empty
  /\ skipped = {}

\* new URL(baseUrl) throws on a text that is no URL: crawlSite rejects.
CrawlStartThrow ==
  /\ pc = "init"
  /\ ~URLValid(baseUrl)
  /\ pc' = "threw"
  /\ UNCHANGED <<baseUrl, limit, origin, visited, queue, entries, cur, linkNo,
                 fetchLog, failed, enqueued, skipped,
                 crawlOthers>>

\* The declarations before the loop.
CrawlStart ==
  /\ pc = "init"
  /\ URLValid(baseUrl)
  /\ origin' = URLOrigin(baseUrl)
  /\ queue' = <<Seed(baseUrl)>>
  /\ pc' = "loop"
  /\ UNCHANGED <<baseUrl, limit, visited, entries, cur, linkNo, fetchLog, failed,
                 enqueued, skipped,
                 crawlOthers>>

\* One pass of the loop head: shift the queue, strip the fragment, skip a
\* visited URL, otherwise mark it visited and call fetchPage.
CrawlDequeue ==
  /\ pc = "loop"
  /\ LoopCond(queue, entries, limit)
  /\ LET normalized == SplitFirst(Shift(queue).item, "#")
     IN  /\ queue' = Shift(queue).rest
         /\ IF normalized \in visited
            THEN UNCHANGED <<visited, cur, fetchLog, pc>>
            ELSE /\ visited' = visited \cup {normalized}
                 /\ cur' = normalized
                 /\ fetchLog' = Append(fetchLog, normalized)
                 /\ pc' = "fetch"
  /\ UNCHANGED <<baseUrl, limit, origin, entries, linkNo, failed, enqueued, skipped,
                 crawlOthers>>

\* A catch block that puts the URL back on the queue for another try.
AfterFetchFailRetry(es, q, u) == [entries |-> es, queue |-> Append(q, u)]

\* What a failed fetch of u leaves of entries and queue: the catch block is empty.
AfterFetchFail(es, q, u) == [entries |-> es, queue |-> q]

\* fetchPage threw (network error, timeout or a non-2xx status).
CrawlFetchFail ==
  /\ pc = "fetch"
  /\ failed' = failed \cup {cur}
  /\ entries' = AfterFetchFail(entries, queue, cur).entries
  /\ queue' = AfterFetchFail(entries, queue, cur).queue
  /\ cur' = Empty
  /\ pc' = "loop"
  /\ UNCHANGED <<baseUrl, limit, origin, visited, linkNo, fetchLog, enqueued,
                 skipped,
                 crawlOthers>>

\* fetchPage returned markup: push the page's entry, then scan its links.
CrawlFetchOk ==
  /\ pc = "fetch"
  /\ entries' = Append(entries, CrawlEntry(cur, origin))
  /\ linkNo' = 0
  /\ pc' = "links"
  /\ UNCHANGED <<baseUrl, limit, origin, visited, queue, cur, fetchLog, failed,
                 enqueued, skipped,
                 crawlOthers>>

\* The each() callback on the page's next <a href>, whose attribute is href.
CrawlLink(href) ==
  /\ pc = "links"
  /\ linkNo < MaxLinks
  /\ queue' = EnqueueLink(href, cur, origin, visited, queue)
  /\ enqueued' = enqueued \o SubSeq(queue', Len(queue) + 1, Len(queue'))
  /\ skipped' = skipped \cup ({LinkVerdict(href, cur, origin, visited, queue)}
                               \ {"none", "push"})
  /\ linkNo' = linkNo + 1
  /\ UNCHANGED <<baseUrl, limit, origin, visited, entries, pc, cur, fetchLog, failed,
                 crawlOthers>>

\* The page has no further <a href>: back to the loop head.
CrawlLinksEnd ==
  /\ pc = "links"
  /\ cur' = Empty
  /\ linkNo' = 0
  /\ pc' = "loop"
  /\ UNCHANGED <<baseUrl, limit, origin, visited, queue, entries, fetchLog, failed,
                 enqueued, skipped,
                 crawlOthers>>

\* The loop condition is false: return entries.
CrawlReturn ==
  /\ pc = "loop"
  /\ ~LoopCond(queue, entries, limit)
  /\ pc' = "done"
  /\ UNCHANGED <<baseUrl, limit, origin, visited, queue, entries, cur, linkNo,
                 fetchLog, failed, enqueued, skipped,
                 crawlOthers>>

CrawlNext ==
  \/ CrawlStartThrow
  \/ CrawlStart
  \/ CrawlDequeue
  \/ CrawlFetchFail
  \/ CrawlFetchOk
  \/ \E href \in Hrefs : CrawlLink(href)
  \/ CrawlLinksEnd
  \/ CrawlReturn

InitCrawl == CrawlInit /\ SmIdle /\ FmtIdle /\ DsIdle /\ RunIdle /\ FtIdle /\ AiIdle /\ FullIdle /\ CtIdle /\ OutIdle /\ ExIdle /\ PoIdle /\ OvIdle

SpecCrawl == InitCrawl /\ [][CrawlNext]_vars

\* The crawl is one sequential async function: the event loop always resumes it.
FairSpecCrawl == SpecCrawl /\ WF_vars(CrawlNext)

\* ------------------------------------------------------ crawlSite: claims

\* No element occurs twice in list q.
NoDup(q) == \A i, j \in 1..Len(q) : q[i] = q[j] => i = j

\* How often x occurs in list q.
Count(q, x) == Cardinality({ i \in 1..Len(q) : q[i] = x })

\* The URLs of the entries, in order.
EntryUrls == [i \in 1..Len(entries) |-> entries[i].url]

\* A path ends in a dot and one of the skipped extensions.
EndsInSkippedExtension(path) ==
  IF Len(path) < 2 THEN FALSE
  ELSE path[Len(path) - 1] = "." /\ ToLower(path[Len(path)]) \in SkipExtensionWords

\* C2: crawlSite never holds, and so never returns, more than limit entries.
C2_AtMostLimit == Len(entries) <= limit

\* C2 witness: a crawl returned exactly limit >= 2 entries with URLs still queued.
C2_Witness == pc = "done" /\ limit >= 2 /\ Len(entries) = limit /\ queue # Empty

\* C3: no URL is on the queue twice, no queued URL is visited, no URL is pushed
\* twice or with a fragment, no URL is fetched twice and none is listed twice.
C3_NoDuplicateWork ==
  /\ NoDup(queue)
  /\ \A i \in 1..Len(queue) : SplitFirst(queue[i], "#") \notin visited
  /\ NoDup(enqueued)
  /\ \A i \in 1..Len(enqueued) : FirstIn(enqueued[i], {"#"}) = 0
  /\ NoDup(fetchLog)
  /\ NoDup(EntryUrls)

\* C3 witness: a crawl of several pages returned after links were rejected both
\* for being queued already and for being visited already.
C3_Witness ==
  pc = "done" /\ Len(entries) >= 2 /\ {"queued", "visited"} \subseteq skipped

\* The positions of the entries with priority 1.0.
HomeEntries == { i \in 1..Len(entries) : entries[i].priority = PriorityHome }

\* C39: crawlSite never lists the home page twice: at most one entry has
\* priority 1.0, and the origin is not listed both with and without its
\* trailing slash.
C39_HomeListedOnce ==
  /\ Cardinality(HomeEntries) <= 1
  /\ ~({<<origin>>, <<origin, "/">>} \subseteq Range(EntryUrls))

\* C39 for a seed that is not the bare origin: at most one entry has priority
\* 1.0, and it is the origin with its slash.
C39_HomeListedOnceFromPage ==
  (pc \notin {"init", "threw"} /\ Seed(baseUrl) # <<origin>>) =>
    /\ Cardinality(HomeEntries) <= 1
    /\ \A i \in HomeEntries : entries[i].url = <<origin, "/">>

\* C39: a crawl seeded with the bare origin returned the home page twice, as
\* the origin and as the origin with its slash, both with priority 1.0.
C39_HomeTwiceWitness ==
  /\ pc = "done"
  /\ baseUrl = <<"https://example.com">>
  /\ Len(entries) >= 2
  /\ entries[1] = [url |-> <<"https://example.com">>, priority |-> PriorityHome]
  /\ entries[2] = [url |-> <<"https://example.com", "/">>, priority |-> PriorityHome]

\* C39: a crawl seeded with a page returned the page and then the home page,
\* the only entry with priority 1.0.
C39_FromPageWitness ==
  /\ pc = "done"
  /\ baseUrl = <<"https://example.com", "/", "docs">>
  /\ Len(entries) >= 2
  /\ HomeEntries = {2}

\* C4: a URL whose fetch failed has no entry, was fetched once and is not
\* queued again; the failing step changes neither entries nor queue and returns
\* to the loop; crawlSite throws only before its first fetch.
C4_FetchFailureSkipped ==
  /\ [](\A u \in failed :
          /\ u \notin Range(EntryUrls)
          /\ Count(fetchLog, u) = 1
          /\ u \notin Range(queue))
  /\ [](pc = "threw" => fetchLog = Empty)
  /\ [][(pc = "fetch" /\ failed' # failed)
          => (entries' = entries /\ queue' = queue /\ pc' = "loop")]_vars

\* C4 witness: after a failed fetch a later page was fetched and listed.
C4_Witness ==
  /\ pc = "done"
  /\ \E i, j \in 1..Len(fetchLog) :
       i < j /\ fetchLog[i] \in failed /\ fetchLog[j] \in Range(EntryUrls)

\* C5: crawlSite ends (it returns, or throws on a base URL that is no URL), and
\* when it returns the queue is empty or limit entries were emitted.
C5_Terminates ==
  /\ <>(pc \in {"done", "threw"})
  /\ [](pc = "done" => (queue = Empty \/ Len(entries) >= limit))

\* C5 witness: a crawl of at least two pages returned because the queue ran
\* empty, below the limit.
C5_Witness ==
  pc = "done" /\ queue = Empty /\ Len(entries) >= 2 /\ Len(entries) < limit

\* C6 as claimed: with limit >= 1 the first entry is the seed with priority 1.0.
C6_Original ==
  (pc = "done" /\ limit >= 1)
    => IF entries = Empty THEN FALSE
       ELSE /\ entries[1].url = StripTrailingSlash(baseUrl)
            /\ entries[1].priority = PriorityHome

\* C6 amended: with limit >= 1, when the seed's fetch succeeded the first entry
\* is the base URL without trailing slash and fragment, with priority 1.0 if
\* its path is the root and 0.5 otherwise; when it failed the result is empty.
C6_SeedFirst ==
  (pc = "done" /\ limit >= 1)
    => LET seedUrl == SplitFirst(StripTrailingSlash(baseUrl), "#")
       IN  IF seedUrl \in failed THEN entries = Empty
           ELSE IF entries = Empty THEN FALSE
           ELSE /\ entries[1].url = seedUrl
                /\ entries[1].priority =
                     (IF seedUrl \in {<<origin>>, <<origin, "/">>}
                      THEN PriorityHome ELSE PriorityOther)

\* C6 witness: a crawl from a base URL with a path returned its seed first, with
\* priority 0.5, followed by another page.
C6_Witness ==
  /\ pc = "done"
  /\ Len(entries) >= 2
  /\ entries[1].url = <<"https://example.com", "/", "docs">>
  /\ entries[1].priority = PriorityOther

\* C7: every URL pushed by link discovery has the base URL's origin and a path
\* that does not end in a skipped extension, and every entry is the seed or
\* such a URL.
C7_OnlySameOriginPages ==
  /\ \A i \in 1..Len(enqueued) :
       /\ enqueued[i][1] = origin
       /\ ~EndsInSkippedExtension(SplitFirst(SplitFirst(enqueued[i], "#"), "?"))
  /\ \A i \in 1..Len(entries) :
       \/ entries[i].url = SplitFirst(StripTrailingSlash(baseUrl), "#")
       \/ entries[i].url \in Range(enqueued)

\* C7 witness: a crawl of several pages returned after links were rejected both
\* for their origin and for their extension.
C7_Witness ==
  pc = "done" /\ Len(entries) >= 2 /\ {"origin", "extension"} \subseteq skipped

\* ------------------------------------------------------------- sitemap.ts

\* Priority given to a <url> whose <priority> yields no usable number (0.5), in tenths.
DefaultPriority == 5

\* HTTP status of a successful response and of a server error.
StatusOk == 200
StatusError == 500

\* HTTP status of a missing page.
StatusNotFound == 404

\* text.trim(): leading and trailing blanks removed.
RECURSIVE TrimLeft(_)
TrimLeft(s) == IF s # Empty /\ Head(s) = " " THEN TrimLeft(Tail(s)) ELSE s

RECURSIVE TrimRight(_)
TrimRight(s) ==
  IF s # Empty /\ s[Len(s)] = " " THEN TrimRight(SubSeq(s, 1, Len(s) - 1)) ELSE s

Trim(s) == TrimRight(TrimLeft(s))

\* The digit tokens and their values.
DigitValue == [d \in {"0", "1", "5", "8"} |->
                 CASE d = "0" -> 0 [] d = "1" -> 1 [] d = "5" -> 5 [] d = "8" -> 8]

IsDigits(w) == w \in DOMAIN DigitValue

\* parseFloat(text), in tenths: leading blanks skipped, then the longest decimal
\* prefix (an integer part with an optional one-digit fraction, or a bare
\* fraction); nan when the text starts with no number.
ParseFloat(text) ==
  LET s == TrimLeft(text)
  IN  IF s = Empty THEN [nan |-> TRUE, v |-> 0]
      ELSE IF IsDigits(s[1])
      THEN IF Len(s) >= 3
           THEN IF s[2] = "." /\ IsDigits(s[3])
                THEN [nan |-> FALSE, v |-> 10 * DigitValue[s[1]] + DigitValue[s[3]]]
                ELSE [nan |-> FALSE, v |-> 10 * DigitValue[s[1]]]
           ELSE [nan |-> FALSE, v |-> 10 * DigitValue[s[1]]]
      ELSE IF s[1] = "." /\ Len(s) >= 2
      THEN IF IsDigits(s[2])
           THEN [nan |-> FALSE, v |-> DigitValue[s[2]]]
           ELSE [nan |-> TRUE, v |-> 0]
      ELSE [nan |-> TRUE, v |-> 0]

\* x || 0.5 on a number: NaN and 0 are falsy.
OrDefault(x) == IF x.nan \/ x.v = 0 THEN DefaultPriority ELSE x.v

\* The entry pushed for a <url> element with a <loc>.
UrlEntry(el) ==
  [url |-> Trim(el.loc),
   priority |-> OrDefault(ParseFloat(el.priority)),
   lastmod |-> Trim(el.lastmod)]

\* The each() loop over $('urlset url'): stop at limit entries, skip an element
\* whose trimmed <loc> text is empty, push an entry for every other one.
RECURSIVE CollectUrls(_, _, _)
CollectUrls(urls, lim, acc) ==
  IF urls = Empty \/ Len(acc) >= lim THEN acc
  ELSE IF Trim(Head(urls).loc) = Empty THEN CollectUrls(Tail(urls), lim, acc)
  ELSE CollectUrls(Tail(urls), lim, Append(acc, UrlEntry(Head(urls))))

\* One entry put into a list sorted by descending priority, before its equals.
InsertBeforeEquals(sorted, e) ==
  LET k == Cardinality({ i \in 1..Len(sorted) : sorted[i].priority > e.priority })
  IN  SubSeq(sorted, 1, k) \o <<e>> \o SubSeq(sorted, k + 1, Len(sorted))

\* One entry put into a list sorted by descending priority, after its equals.
InsertSorted(sorted, e) ==
  LET k == Cardinality({ i \in 1..Len(sorted) : sorted[i].priority >= e.priority })
  IN  SubSeq(sorted, 1, k) \o <<e>> \o SubSeq(sorted, k + 1, Len(sorted))

\* entries.sort((a, b) => b.priority - a.priority): the stable sort of the
\* language, by descending priority.
RECURSIVE SortByPriority(_)
SortByPriority(es) ==
  IF es = Empty THEN Empty
  ELSE InsertSorted(SortByPriority(SubSeq(es, 1, Len(es) - 1)), es[Len(es)])

\* A urlset branch that sorts every element first and cuts to the limit afterwards.
ParseUrlsetSortFirst(urls, lim) ==
  LET all == SortByPriority(CollectUrls(urls, Len(urls), Empty))
  IN  SubSeq(all, 1, IF Len(all) < lim THEN Len(all) ELSE lim)

\* The urlset branch of parseSitemapXml.
ParseUrlset(urls, lim) == SortByPriority(CollectUrls(urls, lim, Empty))

\* The sitemap URLs of the site.
S1 == <<"https://example.com", "/", "s1", ".", "xml">>
S2 == <<"https://example.com", "/", "s2", ".", "xml">>
SitemapUrls == {S1, S2}

\* <url> elements a sitemap may carry, by the text of their children (empty
\* when the child is missing): full, without lastmod, without priority, with a
\* priority that is no number, with priority 0.0, without loc, with a blank
\* loc, and a second element for the first loc.
UrlElements ==
  { [loc |-> <<"https://example.com", "/">>, priority |-> <<"1", ".", "0">>,
     lastmod |-> <<"2024-01-15">>],
    [loc |-> <<" ", "https://example.com", "/", "about", " ">>,
     priority |-> <<"0", ".", "8">>, lastmod |-> Empty],
    [loc |-> <<"https://example.com", "/", "blog">>, priority |-> Empty,
     lastmod |-> <<" ">>],
    [loc |-> <<"https://example.com", "/", "docs">>, priority |-> <<"high">>,
     lastmod |-> Empty],
    [loc |-> <<"https://example.com", "/", "old">>, priority |-> <<"0", ".", "0">>,
     lastmod |-> Empty],
    [loc |-> Empty, priority |-> <<"1", ".", "0">>, lastmod |-> Empty],
    [loc |-> <<" ">>, priority |-> <<"0", ".", "8">>, lastmod |-> Empty],
    [loc |-> <<"https://example.com", "/">>, priority |-> <<"0", ".", "5">>,
     lastmod |-> Empty] }

\* The text of a <sitemap><loc>: a sitemap URL as written, one with blanks
\* around it, and a blank text.
KidTexts == { S1, <<" ">> \o S2 \o <<" ">>, <<" ">> }

\* A document, as the two lists the selectors of parseSitemapXml yield: the
\* texts of 'sitemapindex sitemap loc' and the elements of 'urlset url'.
Doc(kids, urls) == [kids |-> kids, urls |-> urls]

\* The documents handed to parseSitemapXml directly: every urlset and every index.
RootDocs ==
  { Doc(Empty, urls) : urls \in SeqsUpTo(UrlElements, MaxUrls) }
    \cup { Doc(kids, Empty) : kids \in SeqsUpTo(KidTexts, MaxKids) }

\* The documents the site serves: markup that is no sitemap, two urlsets, and
\* indexes naming one or both sitemap URLs.
ServedDocs ==
  { Doc(Empty, Empty),
    Doc(Empty, << [loc |-> <<"https://example.com", "/", "a">>,
                   priority |-> <<"0", ".", "5">>, lastmod |-> Empty],
                  [loc |-> <<"https://example.com", "/", "b">>,
                   priority |-> <<"0", ".", "8">>, lastmod |-> Empty] >>),
    Doc(Empty, << [loc |-> <<"https://example.com", "/", "c">>,
                   priority |-> <<"1", ".", "0">>, lastmod |-> Empty] >>),
    Doc(<<S1>>, Empty),
    Doc(<<S2>>, Empty),
    Doc(<<S1, S2>>, Empty) }

\* What a fetch of a sitemap URL can yield: a rejected promise, an error
\* status, or a successful response with a body.
Responses ==
  { [net |-> "error", status |-> 0, body |-> Doc(Empty, Empty)],
    [net |-> "ok", status |-> StatusError, body |-> Doc(Empty, Empty)],
    [net |-> "ok", status |-> StatusNotFound, body |-> Doc(Empty, Empty)] }
    \cup { [net |-> "ok", status |-> StatusOk, body |-> d] : d \in ServedDocs }

\* Not fetched yet.
Unknown == [net |-> "unknown", status |-> 0, body |-> Doc(Empty, Empty)]

\* The answers fetch(u) can give: none but a rejection for a text that is no
\* URL, the recorded answer for a sitemap URL fetched before, any answer
\* otherwise.
Answers(u) ==
  IF ~URLValid(u) THEN {[net |-> "error", status |-> 0, body |-> Doc(Empty, Empty)]}
  ELSE IF u \notin SitemapUrls THEN Responses
  ELSE IF smWeb[u] = Unknown THEN Responses
  ELSE {smWeb[u]}

\* smWeb after u answered r.
Answered(u, r) == IF u \in SitemapUrls THEN [smWeb EXCEPT ![u] = r] ELSE smWeb

\* What fetchSitemap throws: the rejection of fetch as it is, or
\* new Error(`Failed to fetch sitemap ${sitemapUrl}: ${res.status}`).
FetchSitemapError(url, r) ==
  IF r.net = "error" THEN [kind |-> "network", url |-> Empty, status |-> 0]
  ELSE [kind |-> "http", url |-> url, status |-> r.status]

\* res.ok
ResOk(r) == r.net = "ok" /\ r.status >= 200 /\ r.status < 300

\* entries.slice(0, limit)
Slice(es, lim) == SubSeq(es, 1, IF Len(es) < lim THEN Len(es) ELSE lim)

\* A parseSitemapXml call that found an index: the child texts not yet
\* visited, the entries so far, its limit, and what each child contributed.
Frame(kids, lim) ==
  [kids |-> kids, entries |-> Empty, limit |-> lim, got |-> Empty, url |-> Empty]

SmInit ==
  /\ smMode \in {"parse", "fetch"}
  /\ smXml \in (IF smMode = "parse" THEN RootDocs ELSE {Doc(Empty, Empty)})
  /\ smUrl \in (IF smMode = "fetch" THEN SitemapUrls ELSE {Empty})
  /\ smLimit \in 0..MaxLimit
  /\ smWeb = [u \in SitemapUrls |-> Unknown]
  /\ smStack = Empty
  /\ smPc = "init"
  /\ smResult = Empty
  /\ smFetchLog = Empty
  /\ smRootGot = Empty
  /\ smError = NoError

\* A catch block that also throws away what the siblings contributed.
ChildFailedDropsAll(es) == Empty

\* The entries of an index after a child failed: the catch block is empty.
ChildFailed(es) == es

\* The call state after a list res is handed to the caller: the innermost
\* index pushes it on its entries, the outermost caller gets it as the result.
Deliver(res, stack) ==
  IF stack = Empty
  THEN [stack |-> Empty, pc |-> "done", result |-> res]
  ELSE LET f == stack[Len(stack)]
           g == [f EXCEPT !.entries = f.entries \o res,
                          !.got = Append(f.got, [ok |-> TRUE, entries |-> res])]
       IN  [stack |-> [stack EXCEPT ![Len(stack)] = g], pc |-> "run",
            result |-> Empty]

\* parseSitemapXml(d, lim) called from the innermost index of stack (from
\* outside when stack is empty): an index opens a frame, anything else is
\* parsed as a urlset and handed back at once.
Enter(d, lim, stack) ==
  IF Len(d.kids) > 0
  THEN [stack |-> Append(stack, Frame(d.kids, lim)), pc |-> "run", result |-> Empty]
  ELSE Deliver(ParseUrlset(d.urls, lim), stack)

\* The call state st that Enter gave for the body fetched from url, on top of
\* n open indexes: an index it opened is the one fetched from url.
FetchedFrom(url, st, n) ==
  IF Len(st.stack) > n
  THEN [st EXCEPT !.stack = [st.stack EXCEPT ![n + 1] = [@ EXCEPT !.url = url]]]
  ELSE st

\* fetchSitemap(url, lim) is being executed: an index fetched from url with
\* that limit is open.
Executing(url, lim, stack) ==
  \E k \in 1..Len(stack) : stack[k].url = url /\ stack[k].limit = lim

\* The innermost index with its next child taken off the list.
Advance(stack) ==
  [stack EXCEPT ![Len(stack)] = [@ EXCEPT !.kids = Tail(@)]]

\* The innermost index after its next child failed.
Caught(stack) ==
  [stack EXCEPT ![Len(stack)] =
     [@ EXCEPT !.kids = Tail(@),
               !.entries = ChildFailed(@),
               !.got = Append(@, [ok |-> FALSE, entries |-> Empty])]]

\* The for loop without its break.
MoreChildrenNoBreak(f) == f.kids # Empty

\* The for loop of an index goes on: children are left and the limit is not reached.
MoreChildren(f) == f.kids # Empty /\ Len(f.entries) < f.limit

\* parseSitemapXml(xml, origin, limit) is called.
SmStartParse ==
  /\ smPc = "init"
  /\ smMode = "parse"
  /\ LET st == Enter(smXml, smLimit, Empty)
     IN  smStack' = st.stack /\ smPc' = st.pc /\ smResult' = st.result
  /\ UNCHANGED <<smMode, smXml, smUrl, smLimit, smWeb, smFetchLog, smRootGot, smError,
                 smOthers>>

\* fetchSitemap(sitemapUrl, limit) is called and the fetch fails or answers
\* with an error status: it throws.
SmStartFetchFail ==
  /\ smPc = "init"
  /\ smMode = "fetch"
  /\ \E r \in Answers(smUrl) :
       /\ ~ResOk(r)
       /\ smWeb' = Answered(smUrl, r)
       /\ smError' = FetchSitemapError(smUrl, r)
  /\ smFetchLog' = Append(smFetchLog, smUrl)
  /\ smPc' = "threw"
  /\ UNCHANGED <<smMode, smXml, smUrl, smLimit, smStack, smResult, smRootGot, smOthers>>

\* fetchSitemap(sitemapUrl, limit) is called and the fetch succeeds: the body is parsed.
SmStartFetchOk ==
  /\ smPc = "init"
  /\ smMode = "fetch"
  /\ \E r \in Answers(smUrl) :
       /\ ResOk(r)
       /\ smWeb' = Answered(smUrl, r)
       /\ LET st == FetchedFrom(smUrl, Enter(r.body, smLimit, Empty), 0)
          IN  smStack' = st.stack /\ smPc' = st.pc /\ smResult' = st.result
  /\ smFetchLog' = Append(smFetchLog, smUrl)
  /\ UNCHANGED <<smMode, smXml, smUrl, smLimit, smRootGot, smError, smOthers>>

\* The innermost index fetches its next child and fetchSitemap throws: the
\* catch block swallows it.
SmChildFail ==
  /\ smPc = "run"
  /\ MoreChildren(smStack[Len(smStack)])
  /\ LET childUrl == Trim(Head(smStack[Len(smStack)].kids))
     IN  /\ \E r \in Answers(childUrl) :
              /\ ~ResOk(r)
              /\ smWeb' = Answered(childUrl, r)
         /\ smFetchLog' = Append(smFetchLog, childUrl)
  /\ smStack' = Caught(smStack)
  /\ UNCHANGED <<smMode, smXml, smUrl, smLimit, smPc, smResult, smRootGot, smError, smOthers>>

\* The innermost index fetches its next child and gets a body, which is parsed
\* with the budget that is left.
SmChildOk ==
  /\ smPc = "run"
  /\ MoreChildren(smStack[Len(smStack)])
  /\ LET f == smStack[Len(smStack)]
         childUrl == Trim(Head(f.kids))
     IN  /\ \E r \in Answers(childUrl) :
              /\ ResOk(r)
              /\ ~(/\ Len(r.body.kids) > 0
                   /\ Executing(childUrl, f.limit - Len(f.entries), smStack))
              /\ smWeb' = Answered(childUrl, r)
              /\ LET st == FetchedFrom(childUrl,
                                       Enter(r.body, f.limit - Len(f.entries),
                                             Advance(smStack)),
                                       Len(smStack))
                 IN  smStack' = st.stack /\ smPc' = st.pc /\ smResult' = st.result
         /\ smFetchLog' = Append(smFetchLog, childUrl)
  /\ UNCHANGED <<smMode, smXml, smUrl, smLimit, smRootGot, smError, smOthers>>

\* The innermost index calls fetchSitemap(childUrl, limit - entries.length)
\* while that very call is being executed, and gets the same index again.
\* Every sitemap fetched since that call began answers now as it did then, so
\* the new call does what the old one did and makes the same call in turn:
\* the calls go on nesting and none returns.
SmChildRecurs ==
  /\ smPc = "run"
  /\ MoreChildren(smStack[Len(smStack)])
  /\ LET f == smStack[Len(smStack)]
         childUrl == Trim(Head(f.kids))
     IN  /\ \E r \in Answers(childUrl) :
              /\ ResOk(r)
              /\ Len(r.body.kids) > 0
              /\ Executing(childUrl, f.limit - Len(f.entries), smStack)
              /\ smWeb' = Answered(childUrl, r)
         /\ smFetchLog' = Append(smFetchLog, childUrl)
  /\ smPc' = "recurs"
  /\ UNCHANGED <<smMode, smXml, smUrl, smLimit, smStack, smResult, smRootGot, smError,
                 smOthers>>

\* The for loop of the innermost index is over: return entries.slice(0, limit)
\* to its caller.
SmReturn ==
  /\ smPc = "run"
  /\ ~MoreChildren(smStack[Len(smStack)])
  /\ LET f  == smStack[Len(smStack)]
         st == Deliver(Slice(f.entries, f.limit), SubSeq(smStack, 1, Len(smStack) - 1))
     IN  /\ smStack' = st.stack /\ smPc' = st.pc /\ smResult' = st.result
         /\ smRootGot' = IF Len(smStack) = 1 THEN f.got ELSE smRootGot
  /\ UNCHANGED <<smMode, smXml, smUrl, smLimit, smWeb, smFetchLog, smError, smOthers>>

SmNext ==
  \/ SmStartParse
  \/ SmStartFetchFail
  \/ SmStartFetchOk
  \/ SmChildFail
  \/ SmChildOk
  \/ SmChildRecurs
  \/ SmReturn

\* No crawl is under way.
CrawlIdle ==
  /\ baseUrl = Empty
  /\ limit = 0
  /\ origin = "null"
  /\ visited = {}
  /\ queue = Empty
  /\ entries = Empty
  /\ pc = "idle"
  /\ cur = Empty
  /\ linkNo = 0
  /\ fetchLog = Empty
  /\ failed = {}
  /\ enqueued = Empty
  /\ skipped = {}

InitSitemap == SmInit /\ CrawlIdle /\ FmtIdle /\ DsIdle /\ RunIdle /\ FtIdle /\ AiIdle /\ FullIdle /\ CtIdle /\ OutIdle /\ ExIdle /\ PoIdle /\ OvIdle

SpecSitemap == InitSitemap /\ [][SmNext]_vars

\* The calls that may meet a sitemapindex: fetchSitemap, and parseSitemapXml
\* given an index.
InitExpand == InitSitemap /\ (smMode = "fetch" \/ smXml.kids # Empty)

\* Every fetch is bounded by a timeout, so a call that can take a step takes one.
FairSpecExpand == InitExpand /\ [][SmNext]_vars /\ WF_smVars(SmNext)

\* ------------------------------------------------ parseSitemapXml: claims

\* The <url> elements that carry a non-blank <loc>, in document order.
LocBearing(urls) == SelectSeq(urls, LAMBDA el : Trim(el.loc) # Empty)

\* The smaller of two numbers.
Min(a, b) == IF a < b THEN a ELSE b

\* parseSitemapXml was called on a document without sitemapindex and returned.
UrlsetParsed == smMode = "parse" /\ smXml.kids = Empty /\ smPc = "done"

\* The list is in descending order of priority.
SortedByPriority(es) ==
  \A i, j \in 1..Len(es) : i < j => es[i].priority >= es[j].priority

\* C8 as claimed: a urlset with N <url> elements carrying a <loc> yields exactly
\* N entries, in descending order of priority.
C8_Original ==
  UrlsetParsed =>
    /\ Len(smResult) = Len(LocBearing(smXml.urls))
    /\ SortedByPriority(smResult)

\* C8 amended: a urlset with N <url> elements carrying a <loc> yields exactly
\* min(N, limit) entries, in descending order of priority, entries of equal
\* priority in the order of their elements in the document.
C8_CountAndOrder ==
  UrlsetParsed =>
    LET withLoc == LocBearing(smXml.urls)
        n       == Min(Len(withLoc), smLimit)
        source  == [i \in 1..n |-> UrlEntry(withLoc[i])]
    IN  /\ Len(smResult) = n
        /\ SortedByPriority(smResult)
        /\ \A p \in { source[i].priority : i \in 1..n } :
             SelectSeq(smResult, LAMBDA e : e.priority = p)
               = SelectSeq(source, LAMBDA e : e.priority = p)

\* C8 witness: a document of three <url> elements, one without <loc>, parsed
\* to two different entries of equal priority.
C8_Witness ==
  /\ UrlsetParsed
  /\ Len(smXml.urls) = 3
  /\ Len(smResult) = 2
  /\ smResult[1].priority = smResult[2].priority
  /\ smResult[1].url # smResult[2].url


\* C35: for a urlset with more than limit <url> elements that carry a <loc>,
\* parseSitemapXml returns exactly the entries of the first limit such elements
\* in document order, each as often as it occurs among them, sorted by priority
\* afterwards: an element beyond the first limit contributes nothing, whatever
\* its priority.
C35_FirstLimitThenSorted ==
  (UrlsetParsed /\ Len(LocBearing(smXml.urls)) > smLimit) =>
    LET withLoc == LocBearing(smXml.urls)
        kept    == [i \in 1..smLimit |-> UrlEntry(withLoc[i])]
    IN  /\ Len(smResult) = smLimit
        /\ SortedByPriority(smResult)
        /\ \A k \in 1..Len(withLoc) :
             Count(smResult, UrlEntry(withLoc[k])) = Count(kept, UrlEntry(withLoc[k]))

\* C35 witness: a urlset whose second element with a <loc> has a higher
\* priority than its first was parsed with limit 1, and the entry of the first
\* element alone was returned.
C35_Witness ==
  /\ UrlsetParsed
  /\ smLimit = 1
  /\ Len(LocBearing(smXml.urls)) >= 2
  /\ UrlEntry(LocBearing(smXml.urls)[2]).priority
       > UrlEntry(LocBearing(smXml.urls)[1]).priority
  /\ smResult = <<UrlEntry(LocBearing(smXml.urls)[1])>>

\* C9: every entry of a parsed urlset comes from an element with that <loc>
\* whose <priority> text parses to the entry's priority, or does not parse at
\* all (missing, or no number) when the priority is 0.5.
C9_PriorityAsParsed ==
  UrlsetParsed =>
    \A i \in 1..Len(smResult) :
      \E k \in 1..Len(smXml.urls) :
        /\ Trim(smXml.urls[k].loc) = smResult[i].url
        /\ smResult[i].priority =
             (IF ParseFloat(smXml.urls[k].priority).nan
              THEN DefaultPriority
              ELSE ParseFloat(smXml.urls[k].priority).v)

\* What the children of an index contributed: the lists of those that
\* succeeded, in order; nothing for one that failed.
RECURSIVE ConcatOk(_)
ConcatOk(got) ==
  IF got = Empty THEN Empty
  ELSE (IF Head(got).ok THEN Head(got).entries ELSE Empty) \o ConcatOk(Tail(got))

\* C10: the entries of an index under expansion are those its successful
\* children returned, in order, a failed child adding nothing and removing
\* nothing; the index returns them cut to limit; no child failure makes the
\* call throw (only fetchSitemap's own fetch does).
C10_BrokenChildSkipped ==
  /\ \A k \in 1..Len(smStack) : smStack[k].entries = ConcatOk(smStack[k].got)
  /\ (smPc = "done" /\ (smRootGot # Empty \/ smXml.kids # Empty))
       => smResult = Slice(ConcatOk(smRootGot), smLimit)
  /\ smPc = "threw" => (smMode = "fetch" /\ smStack = Empty /\ Len(smFetchLog) = 1)

\* C10 witness: an index of two children returned the entries of the first
\* although the second failed.
C10_Witness ==
  /\ smPc = "done"
  /\ smMode = "parse"
  /\ Len(smRootGot) = 2
  /\ smRootGot[1].ok
  /\ smRootGot[1].entries # Empty
  /\ ~smRootGot[2].ok
  /\ smResult = smRootGot[1].entries

\* The total length of the lists the children of an index contributed.
RECURSIVE GotLen(_)
GotLen(got) == IF got = Empty THEN 0 ELSE Len(Head(got).entries) + GotLen(Tail(got))

\* C11: parseSitemapXml and fetchSitemap never return more than limit entries,
\* also across index expansion.  The result is no longer than limit; no index
\* under expansion holds more entries than its limit; a nested index runs with
\* the budget its parent had left (the parent's limit minus the entries the
\* parent had accumulated); every child fetch is for the next child in document
\* order, which is taken off the list unless the fetch repeats a call that is
\* still being executed; and no child is fetched once limit entries are
\* accumulated.
C11_LimitAcrossIndex ==
  /\ [](smPc = "done" => Len(smResult) <= smLimit)
  /\ [](\A k \in 1..Len(smStack) :
          /\ Len(smStack[k].entries) <= smStack[k].limit
          /\ k > 1 => smStack[k].limit
                        = smStack[k - 1].limit - Len(smStack[k - 1].entries))
  /\ [][(smPc = "run" /\ smFetchLog' # smFetchLog) =>
          LET f == smStack[Len(smStack)]
          IN  /\ Len(f.entries) < f.limit
              /\ smFetchLog' = Append(smFetchLog, Trim(Head(f.kids)))
              /\ smPc' # "recurs" => smStack'[Len(smStack)].kids = Tail(f.kids)
              /\ Len(smStack'[Len(smStack)].entries) <= f.limit]_vars

\* C11 witness: an index of two children returned after its first child alone
\* filled the limit; the second child was never fetched.
C11_Witness ==
  /\ smPc = "done"
  /\ smMode = "parse"
  /\ Len(smXml.kids) = 2
  /\ smLimit >= 1
  /\ Len(smRootGot) = 1
  /\ Len(smFetchLog) = 1
  /\ Len(smResult) = smLimit

\* ------------------------------------------------------------ extractor.ts

\* a || b for strings: a unless it is empty.
OrElse(a, b) == IF a # Empty THEN a ELSE b

\* getPageDescription: description || h1 || title || url.
getPageDescription(page) ==
  OrElse(page.description, OrElse(page.h1, OrElse(page.title, page.url)))

\* getPageTitle: title || h1 || url.
getPageTitle(page) == OrElse(page.title, OrElse(page.h1, page.url))

\* ------------------------------------------------------------ formatter.ts

\* Lower-casing of a text, token by token.
ToLowerSeq(s) == [i \in 1..Len(s) |-> ToLower(s[i])]

\* The separators cleanTitle's character class names: | - and the en and em
\* dashes (written here as the tokens "[en dash]" and "[em dash]").
TitleSeparators == {"|", "-", "[en dash]", "[em dash]"}

\* The replace applied again and again, until no suffix is left.
RECURSIVE StripEverySiteSuffix(_, _)
StripEverySiteSuffix(title, siteName) ==
  LET t1   == TrimRight(title)
      n    == Len(siteName)
      ends == /\ Len(t1) >= n
              /\ ToLowerSeq(SubSeq(t1, Len(t1) - n + 1, Len(t1))) = ToLowerSeq(siteName)
      t2   == TrimRight(SubSeq(t1, 1, Len(t1) - n))
  IN  IF ~ends THEN title
      ELSE IF t2 = Empty THEN title
      ELSE IF t2[Len(t2)] \notin TitleSeparators THEN title
      ELSE StripEverySiteSuffix(TrimRight(SubSeq(t2, 1, Len(t2) - 1)), siteName)

\* title.replace(/\s*[|\-..]\s*NAME\s*$/i, ''): the site name at the end of the
\* title, in any letter case, goes with the separator before it and the blanks
\* around both; a title without that suffix is left as it is.
StripSiteSuffix(title, siteName) ==
  LET t1   == TrimRight(title)
      n    == Len(siteName)
      ends == /\ Len(t1) >= n
              /\ ToLowerSeq(SubSeq(t1, Len(t1) - n + 1, Len(t1))) = ToLowerSeq(siteName)
      t2   == TrimRight(SubSeq(t1, 1, Len(t1) - n))
  IN  IF ~ends THEN title
      ELSE IF t2 = Empty THEN title
      ELSE IF t2[Len(t2)] \notin TitleSeparators THEN title
      ELSE TrimRight(SubSeq(t2, 1, Len(t2) - 1))

\* cleanTitle(title, siteName).
cleanTitle(title, siteName) ==
  IF siteName = Empty \/ title = Empty THEN title
  ELSE Trim(StripSiteSuffix(title, siteName))

\* The verbs that open an inventory-count boilerplate description.
InventoryVerbs == {"explore", "browse", "download", "find", "discover"}

\* The tokens [\d,]+ is made of.
CountTokens == {"120", "1", "200", ","}

\* The text after the leading run of tokens that are in set T.
RECURSIVE DropWhile(_, _)
DropWhile(s, T) == IF s # Empty /\ Head(s) \in T THEN DropWhile(Tail(s), T) ELSE s

\* The first n tokens of s dropped.
Drop(s, n) == SubSeq(s, n + 1, Len(s))

\* desc.replace(/^(Explore|Browse|Download|Find|Discover)\s+[\d,]+\s+royalty[- ]free\s+/i, '').
StripInventoryPrefix(desc) ==
  LET a == Drop(desc, 1)            \* after the verb
      b == TrimLeft(a)              \* after \s+
      c == DropWhile(b, CountTokens) \* after [\d,]+
      d == TrimLeft(c)              \* after \s+
      e == Drop(d, 3)               \* after royalty[- ]free
  IN  IF /\ desc # Empty /\ ToLower(desc[1]) \in InventoryVerbs
         /\ a # Empty /\ a[1] = " "
         /\ b # Empty /\ b[1] \in CountTokens
         /\ c # Empty /\ c[1] = " "
         /\ Len(d) >= 3
         /\ ToLower(d[1]) = "royalty" /\ d[2] \in {"-", " "} /\ ToLower(d[3]) = "free"
         /\ e # Empty /\ e[1] = " "
      THEN TrimLeft(e)
      ELSE desc

\* The longest tail .{0,80} accepts, in characters.
MaxAvailabilityTail == 80

\* Characters in a token of the text that follows "available": a blank, the
\* word "now", a word of 81 characters; any other word counts as five.
TokenLen(w) ==
  CASE w = " " -> 1
    [] w = "now" -> 3
    [] w = "EightyOneCharacterWord" -> 81
    [] OTHER -> 5

\* Characters in a text.
RECURSIVE CharLen(_)
CharLen(s) == IF s = Empty THEN 0 ELSE TokenLen(Head(s)) + CharLen(Tail(s))

\* /\s*[..]\s*available\s+.{0,80}$/i matches with its dash at position i.
AvailabilityAt(s, i) ==
  LET after == TrimLeft(Drop(s, i))
  IN  /\ s[i] \in {"[en dash]", "[em dash]"}
      /\ Len(after) >= 2
      /\ ToLower(after[1]) = "available"
      /\ after[2] = " "
      /\ CharLen(Drop(after, 2)) <= MaxAvailabilityTail

\* s.replace(/\s*[..]\s*available\s+.{0,80}$/i, ''): the leftmost match goes,
\* with the blanks before its dash.
StripAvailabilitySuffix(s) ==
  IF \E i \in 1..Len(s) : AvailabilityAt(s, i)
  THEN LET i == CHOOSE i \in 1..Len(s) :
                  AvailabilityAt(s, i) /\ \A j \in 1..(i - 1) : ~AvailabilityAt(s, j)
       IN  TrimRight(SubSeq(s, 1, i - 1))
  ELSE s

\* cleanDescription returning the cleaned text whatever is left of it.
cleanDescriptionNoFallback(desc) ==
  Trim(StripAvailabilitySuffix(StripInventoryPrefix(desc)))

\* cleanDescription(desc): both boilerplate patterns removed and the result
\* trimmed, unless nothing is left.
cleanDescription(desc) ==
  OrElse(Trim(StripAvailabilitySuffix(StripInventoryPrefix(desc))), desc)

\* /\/(w1|w2|...)\b/i .test(path): a slash followed by one of the words, in any
\* letter case, as a whole token.
SlashWord(path, words) ==
  \E i \in 1..(Len(path) - 1) : path[i] = "/" /\ ToLower(path[i + 1]) \in words

\* Key page patterns that lack the help, support, faq and contact pages.
KeyPagePatternsWithoutHelp ==
  << {"pricing"},
     {"license", "legal", "terms", "tos"},
     {"about"} >>

\* KEY_PAGE_PATTERNS after the first one (/^\/$/), as their word lists.
KEY_PAGE_PATTERNS ==
  << {"pricing"},
     {"license", "legal", "terms", "tos"},
     {"help", "support", "faq", "contact"},
     {"about"} >>

\* SECTION_PATTERNS: label and word list, in order.
SECTION_PATTERNS ==
  << [label |-> <<"Documentation">>,
      words |-> {"doc", "docs", "documentation", "guide", "guides", "tutorial",
                 "tutorials", "reference"}],
     [label |-> <<"Blog">>,
      words |-> {"blog", "post", "posts", "article", "articles", "news", "insight",
                 "insights"}],
     [label |-> <<"Pricing">>, words |-> {"pricing"}],
     [label |-> <<"Help", " ", "&", " ", "Support">>,
      words |-> {"help", "support", "faq", "contact"}],
     [label |-> <<"Legal">>, words |-> {"legal", "terms", "license", "privacy", "tos"}],
     [label |-> <<"About">>,
      words |-> {"about", "team", "company", "career", "careers", "press"}],
     [label |-> <<"API", " ", "&", " ", "Reference">>,
      words |-> {"api", "sdk", "reference"}] >>

\* The label of the Key Pages section, also getSectionLabel's fallback.
KeyPagesLabel == <<"Key", " ", "Pages">>

\* isKeyPage(url): false when new URL throws.
isKeyPage(url) ==
  IF ~URLValid(url) THEN FALSE
  ELSE \/ URLPathname(url) = <<"/">>
       \/ \E k \in 1..Len(KEY_PAGE_PATTERNS) :
            SlashWord(URLPathname(url), KEY_PAGE_PATTERNS[k])

\* c.toUpperCase() on the first character of a word.
Capitalize(w) ==
  CASE w = "my" -> "My"
    [] w = "product" -> "Product"
    [] w = "key" -> "Key"
    [] w = "pages" -> "Pages"
    [] w = "intro" -> "Intro"
    [] w = "a" -> "A"
    [] w = "b" -> "B"
    [] w = "c" -> "C"
    [] OTHER -> w

\* segment.replace(/-/g, ' ').replace(/\b\w/g, c => c.toUpperCase()).
TitleCase(segment) ==
  [i \in 1..Len(segment) |->
     IF segment[i] = "-" THEN " " ELSE Capitalize(segment[i])]

\* pathname.split('/').filter(Boolean)[0] ?? '': the first non-empty segment.
FirstSegment(path) == SplitFirst(DropWhile(path, {"/"}), "/")

\* getSectionLabel returning the label of the last matching pattern.
getSectionLabelLastRow(url) ==
  IF ~URLValid(url) THEN KeyPagesLabel
  ELSE LET path == URLPathname(url)
           hits == { k \in 1..Len(SECTION_PATTERNS) :
                       SlashWord(path, SECTION_PATTERNS[k].words) }
       IN  IF hits # {}
           THEN SECTION_PATTERNS[CHOOSE k \in hits : \A j \in hits : k >= j].label
           ELSE IF FirstSegment(path) # Empty THEN TitleCase(FirstSegment(path))
           ELSE KeyPagesLabel

\* getSectionLabel(url): the label of the first matching pattern, else the
\* title-cased first path segment, else 'Key Pages'.
getSectionLabel(url) ==
  IF ~URLValid(url) THEN KeyPagesLabel
  ELSE LET path == URLPathname(url)
           hits == { k \in 1..Len(SECTION_PATTERNS) :
                       SlashWord(path, SECTION_PATTERNS[k].words) }
       IN  IF hits # {}
           THEN SECTION_PATTERNS[CHOOSE k \in hits : \A j \in hits : k <= j].label
           ELSE IF FirstSegment(path) # Empty THEN TitleCase(FirstSegment(path))
           ELSE KeyPagesLabel

\* Longest page list handed to formatLlmTxt.
MaxPages == 3

\* A PageData record with no content (content plays no part in formatLlmTxt),
\* and the record with a content.
Page(url, title, description, h1) ==
  [url |-> url, title |-> title, description |-> description, h1 |-> h1, content |-> Empty]
WithContent(page, content) == [page EXCEPT !.content = content]

\* extractPageData(url, html) for the markup every page serves.
ExtractPageData(url) ==
  Page(url, <<"Test", " ", "Page">>, <<"A", " ", "test.">>, <<"Hello">>)

\* The pages formatLlmTxt is given: the home page with the site name in its
\* title, a pricing page described by its h1 only, a docs page with no text at
\* all, a blog post with inventory boilerplate, a product page with an
\* availability suffix, a second page under /docs that also matches /api, a
\* page whose segment title-cases to "Key Pages" and whose availability tail
\* is too long to strip, a page whose url is no URL, a /pricing page below
\* /docs, a terms page and a support page.
PageRecords ==
  { Page(<<"https://example.com", "/">>,
         <<"Home", " ", "|", " ", "Acme">>, <<"Welcome">>, Empty),
    Page(<<"https://example.com", "/", "pricing">>,
         Empty, Empty, <<"Plans">>),
    Page(<<"https://example.com", "/", "docs", "/", "intro">>,
         Empty, Empty, Empty),
    Page(<<"https://example.com", "/", "blog", "/", "post">>,
         <<"Post", " ", "-", " ", "acme", " ">>,
         <<"Browse", " ", "120", " ", "royalty", "-", "free", " ", "Photos">>, Empty),
    Page(<<"https://example.com", "/", "my", "-", "product">>,
         <<"Product">>,
         <<"Photos", " ", "[em dash]", " ", "available", " ", "now">>, Empty),
    Page(<<"https://example.com", "/", "docs", "/", "api">>,
         <<"API">>, <<"[en dash]", "Available", " ", "now">>, Empty),
    Page(<<"https://example.com", "/", "key", "-", "pages">>,
         <<"Index">>,
         <<"Photos", " ", "[em dash]", " ", "available", " ", "EightyOneCharacterWord">>,
         Empty),
    Page(<<"not a url">>, <<"Broken">>, Empty, Empty),
    Page(<<"https://example.com", "/", "docs", "/", "Pricing">>,
         <<"Docs", " ", "pricing">>, <<"Rates">>, Empty),
    Page(<<"https://example.com", "/", "legal", "/", "terms">>,
         <<"Terms">>, <<"Our", " ", "terms">>, Empty),
    Page(<<"https://example.com", "/", "support">>,
         <<"Support">>, Empty, Empty) }

\* Site names: none, and one that page titles end with.
SiteNames == {Empty, <<"Acme">>}

\* generatedAt.toISOString() of the option, and of new Date() when it is left out.
GeneratedAts == {Empty, <<"2026-01-15", "T", "00:00:00.000Z">>}
Clock == {<<"2026-11-05", "T", "12:00:00.000Z">>}

\* One line of the lines array.  kind tells the template: "title" is
\* `# ${text}`, "quote" is `> ${text}`, "generated" is `*Generated: ${text}*`,
\* "blank" is '', "heading" is `## ${text}`, "page" is
\* `- [${text}](${url}): ${desc}`, "guideline" is one of the four guideline
\* sentences (text names it) with its url.
Line(kind, text, url, desc) == [kind |-> kind, text |-> text, url |-> url, desc |-> desc]

Blank == Line("blank", Empty, Empty, Empty)

Heading(label) == Line("heading", label, Empty, Empty)

\* `- [${title}](${page.url}): ${desc}`.
PageLine(page, siteName) ==
  Line("page", cleanTitle(getPageTitle(page), siteName), page.url,
       cleanDescription(getPageDescription(page)))

\* pages.filter(p => isKeyPage(p.url)).
KeyPages(pages) == SelectSeq(pages, LAMBDA p : isKeyPage(p.url))

\* The remaining pages without the filter.
OtherPagesUnfiltered(pages) == pages

\* pages.filter(p => !isKeyPage(p.url)).
OtherPages(pages) == SelectSeq(pages, LAMBDA p : ~isKeyPage(p.url))

\* The position of label among the keys of map, 0 when it is not a key.
KeyIndex(map, label) ==
  IF \E k \in 1..Len(map) : map[k].label = label
  THEN CHOOSE k \in 1..Len(map) : map[k].label = label
  ELSE 0

\* The grouping loop: sectionMap after the pages ps are added to map.  A Map
\* keeps its keys in insertion order.
RECURSIVE BuildSectionMap(_, _)
BuildSectionMap(ps, map) ==
  IF ps = <<>> THEN map
  ELSE LET label == getSectionLabel(Head(ps).url)
           map1  == IF KeyIndex(map, label) = 0
                    THEN Append(map, [label |-> label, pages |-> <<>>])
                    ELSE map
           k     == KeyIndex(map1, label)
       IN  BuildSectionMap(Tail(ps), [map1 EXCEPT ![k].pages = Append(@, Head(ps))])

\* A heading, a blank, one line per page, a blank.
SectionLines(label, pages, siteName) ==
  <<Heading(label), Blank>>
    \o [i \in 1..Len(pages) |-> PageLine(pages[i], siteName)]
    \o <<Blank>>

\* The lines of all sections of map, last key first.
RECURSIVE MapLinesReversed(_, _)
MapLinesReversed(map, siteName) ==
  IF map = <<>> THEN <<>>
  ELSE MapLinesReversed(Tail(map), siteName)
         \o SectionLines(Head(map).label, Head(map).pages, siteName)

\* The lines of all sections of map, in key order.
RECURSIVE MapLines(_, _)
MapLines(map, siteName) ==
  IF map = <<>> THEN <<>>
  ELSE SectionLines(Head(map).label, Head(map).pages, siteName)
         \o MapLines(Tail(map), siteName)

\* find(pattern) returning the last page whose path matches.
FindPageLast(pages, words) ==
  LET hits == SelectSeq(pages, LAMBDA p :
                IF URLValid(p.url) THEN SlashWord(URLPathname(p.url), words) ELSE FALSE)
  IN  IF hits = <<>> THEN <<>> ELSE <<hits[Len(hits)]>>

\* find(pattern) of buildAnsweringGuidelines: the first page whose path
\* matches, as a list of at most one page.
FindPage(pages, words) ==
  LET hits == SelectSeq(pages, LAMBDA p :
                IF URLValid(p.url) THEN SlashWord(URLPathname(p.url), words) ELSE FALSE)
  IN  IF hits = <<>> THEN <<>> ELSE <<Head(hits)>>

\* One `- For ... questions, refer to: ${url}` line for the page found, if any.
GuidelineFor(topic, found) ==
  IF found = <<>> THEN <<>> ELSE <<Line("guideline", <<topic>>, found[1].url, Empty)>>

\* buildAnsweringGuidelines(pages).
buildAnsweringGuidelines(pages) ==
  LET pricingPage == FindPage(pages, {"pricing"})
      licensePage == FindPage(pages, {"license", "legal", "terms"})
      helpPage    == FindPage(pages, {"help", "support", "faq"})
  IN  IF pricingPage = <<>> /\ licensePage = <<>> /\ helpPage = <<>> THEN <<>>
      ELSE GuidelineFor("pricing", pricingPage)
             \o GuidelineFor("licensing", licensePage)
             \o GuidelineFor("support", helpPage)
             \o <<Line("guideline", <<"do not guess">>, Empty, Empty)>>

\* The label of the guidelines section.
GuidelinesLabel == <<"Answering", " ", "Guidelines">>

\* formatLlmTxt: the lines array before the join.  iso is the ISO text of
\* generatedAt ?? new Date().
formatLlmTxt(siteName, siteDescription, pages, iso) ==
  LET header     == << Line("title", siteName, Empty, Empty), Blank,
                       Line("quote", siteDescription, Empty, Empty), Blank,
                       Line("generated", SplitFirst(iso, "T"), Empty, Empty), Blank >>
      keyPages   == KeyPages(pages)
      otherPages == OtherPages(pages)
      keyLines   == IF Len(keyPages) > 0
                    THEN SectionLines(KeyPagesLabel, keyPages, siteName)
                    ELSE <<>>
      sectionMap == BuildSectionMap(otherPages, <<>>)
      guidelines == buildAnsweringGuidelines(pages)
      guideLines == IF Len(guidelines) > 0
                    THEN <<Heading(GuidelinesLabel), Blank>> \o guidelines \o <<Blank>>
                    ELSE <<>>
  IN  header \o keyLines \o MapLines(sectionMap, siteName) \o guideLines

\* The options of a call.
FmtInit ==
  /\ fmtSiteName \in SiteNames
  /\ fmtDescription = <<"Stock", " ", "photos">>
  /\ fmtPages \in SeqsUpTo(PageRecords, MaxPages)
  /\ fmtGeneratedAt \in GeneratedAts
  /\ fmtPc = "init"
  /\ fmtLines = <<>>

\* formatLlmTxt(options) runs to its return.
FormatLlmTxt ==
  /\ fmtPc = "init"
  /\ \E now \in Clock :
       fmtLines' = formatLlmTxt(fmtSiteName, fmtDescription, fmtPages,
                                OrElse(fmtGeneratedAt, now))
  /\ fmtPc' = "done"
  /\ UNCHANGED <<fmtSiteName, fmtDescription, fmtPages, fmtGeneratedAt, fmtOthers>>

FmtNext == FormatLlmTxt

InitFormat == FmtInit /\ CrawlIdle /\ SmIdle /\ DsIdle /\ RunIdle /\ FtIdle /\ AiIdle /\ FullIdle /\ CtIdle /\ OutIdle /\ ExIdle /\ PoIdle /\ OvIdle

SpecFormat == InitFormat /\ [][FmtNext]_vars

\* ------------------------------------------------------- formatter claims

\* The page lines of the output, in output order.
PageLinesOf(lines) == SelectSeq(lines, LAMBDA l : l.kind = "page")

\* The heading of the section line i stands in: the text of the last heading
\* line above it, as a list of at most one label.
SectionOf(lines, i) ==
  LET above == { j \in 1..(i - 1) : lines[j].kind = "heading" }
  IN  IF above = {} THEN <<>>
      ELSE <<lines[CHOOSE j \in above : \A k \in above : k <= j].text>>

\* The section a page belongs in.
ExpectedSection(url) == IF isKeyPage(url) THEN KeyPagesLabel ELSE getSectionLabel(url)

\* C1: formatLlmTxt renders every input record as exactly one page line in
\* exactly one section.  The output has as many page lines as the input has
\* records; every record's line occurs as often as records with that line occur
\* in the input (none omitted, none repeated); and every page line stands under
\* one heading, Key Pages for a key page and the page's topic label otherwise.
C1_EachPageInOneSection ==
  fmtPc = "done" =>
    /\ Len(PageLinesOf(fmtLines)) = Len(fmtPages)
    /\ \A p \in Range(fmtPages) :
         Count(PageLinesOf(fmtLines), PageLine(p, fmtSiteName))
           = Cardinality({ i \in 1..Len(fmtPages) :
                             PageLine(fmtPages[i], fmtSiteName) = PageLine(p, fmtSiteName) })
    /\ \A i \in 1..Len(fmtLines) :
         fmtLines[i].kind = "page" =>
           SectionOf(fmtLines, i) = <<ExpectedSection(fmtLines[i].url)>>

\* C1 witness: a returned document for a key page and two other pages that
\* fall under different topic labels.
C1_Witness ==
  /\ fmtPc = "done"
  /\ \E i \in 1..Len(fmtPages) : isKeyPage(fmtPages[i].url)
  /\ \E i, j \in 1..Len(fmtPages) :
       /\ ~isKeyPage(fmtPages[i].url)
       /\ ~isKeyPage(fmtPages[j].url)
       /\ getSectionLabel(fmtPages[i].url) # getSectionLabel(fmtPages[j].url)
  /\ \E i, j \in 1..Len(fmtLines) :
       /\ fmtLines[i].kind = "heading" /\ fmtLines[i].text = KeyPagesLabel
       /\ fmtLines[j].kind = "heading" /\ fmtLines[j].text \notin {KeyPagesLabel, GuidelinesLabel}

\* The positions of the headings, and the last heading above line j (0 when
\* there is none).
HeadingsOf(lines) == { i \in 1..Len(lines) : lines[i].kind = "heading" }
HeadingAbove(lines, j) ==
  LET above == { i \in HeadingsOf(lines) : i < j }
  IN  IF above = {} THEN 0 ELSE CHOOSE i \in above : \A k \in above : k <= i

\* The page lines of the section whose heading is line i, in document order.
RECURSIVE EntriesFrom(_, _, _)
EntriesFrom(lines, i, j) ==
  IF j > Len(lines) THEN <<>>
  ELSE (IF lines[j].kind = "page" /\ HeadingAbove(lines, j) = i THEN <<lines[j]>> ELSE <<>>)
       \o EntriesFrom(lines, i, j + 1)
SectionEntries(lines, i) == EntriesFrom(lines, i, i + 1)

\* Line i is the heading of a Key Pages section with at least one entry.
IsKeyPagesSection(lines, i) ==
  /\ lines[i].kind = "heading"
  /\ lines[i].text = KeyPagesLabel
  /\ SectionEntries(lines, i) # <<>>

\* The lines of the key pages of the input, in input order.
KeyPageLines ==
  LET keyPages == KeyPages(fmtPages)
  IN  [k \in 1..Len(keyPages) |-> PageLine(keyPages[k], fmtSiteName)]

\* The lines of the input pages that occur in the section, in input order.
InInputOrder(section) ==
  SelectSeq([k \in 1..Len(fmtPages) |-> PageLine(fmtPages[k], fmtSiteName)],
            LAMBDA l : l \in Range(section))

\* C20: a Key Pages section with at least one entry is the first section of
\* the document, before every topic section, and its pages stand in their
\* original relative order.
C20_KeyPagesFirst ==
  fmtPc = "done" =>
    \A i \in 1..Len(fmtLines) :
      IsKeyPagesSection(fmtLines, i) =>
        /\ HeadingAbove(fmtLines, i) = 0
        /\ SectionEntries(fmtLines, i) = InInputOrder(SectionEntries(fmtLines, i))

\* C20 for the section formatLlmTxt builds from keyPages: when the input has
\* a key page, the first heading of the document is Key Pages and its
\* entries are the key pages in input order.
C20_KeyBucketFirst ==
  (fmtPc = "done" /\ KeyPages(fmtPages) # <<>>) =>
    LET first == CHOOSE i \in HeadingsOf(fmtLines) : \A k \in HeadingsOf(fmtLines) : i <= k
    IN  /\ HeadingsOf(fmtLines) # {}
        /\ fmtLines[first].text = KeyPagesLabel
        /\ SectionEntries(fmtLines, first) = KeyPageLines

\* The case of C20_KeyBucketFirst: two key pages with a topic page between
\* them in the input.
C20_KeyBucketWitness ==
  /\ fmtPc = "done"
  /\ Len(fmtPages) = 3
  /\ isKeyPage(fmtPages[1].url)
  /\ ~isKeyPage(fmtPages[2].url)
  /\ isKeyPage(fmtPages[3].url)
  /\ fmtPages[1] # fmtPages[3]
  /\ Len(KeyPageLines) = 2

\* The key patterns of the claim: the root path exactly, or a slash followed
\* by one of the key words.
KeyWords ==
  {"pricing", "license", "legal", "terms", "tos", "help", "support", "faq", "contact", "about"}
MatchesKeyPattern(url) ==
  /\ URLValid(url)
  /\ \/ URLPathname(url) = <<"/">>
     \/ \E i \in 1..(Len(URLPathname(url)) - 1) :
          URLPathname(url)[i] = "/" /\ ToLower(URLPathname(url)[i + 1]) \in KeyWords

\* The rows of the topic table that match the path of url, and the label of
\* the first of them.
MatchingRows(url) ==
  IF URLValid(url)
  THEN { k \in 1..Len(SECTION_PATTERNS) :
           SlashWord(URLPathname(url), SECTION_PATTERNS[k].words) }
  ELSE {}
FirstRowLabel(url) ==
  SECTION_PATTERNS[CHOOSE k \in MatchingRows(url) : \A j \in MatchingRows(url) : k <= j].label

\* The first path segment of url has a title-cased form.
HasSegment(url) == URLValid(url) /\ FirstSegment(URLPathname(url)) # Empty

\* The page lines above line i.
PageLinesAbove(lines, i) == { j \in 1..(i - 1) : lines[j].kind = "page" }

\* C21 as stated: a page line stands under Key Pages exactly when the path
\* of its URL matches a key pattern, whatever topic rows match as well; every
\* other page stands under the label of the first matching topic row or,
\* when no row matches, under its title-cased first path segment.
C21_KeyIffPattern ==
  fmtPc = "done" =>
    \A i \in 1..Len(fmtLines) :
      fmtLines[i].kind = "page" =>
        LET url == fmtLines[i].url
        IN  /\ (SectionOf(fmtLines, i) = <<KeyPagesLabel>>) <=> MatchesKeyPattern(url)
            /\ ~MatchesKeyPattern(url) =>
                 /\ MatchingRows(url) # {} => SectionOf(fmtLines, i) = <<FirstRowLabel(url)>>
                 /\ MatchingRows(url) = {} =>
                      /\ HasSegment(url)
                      /\ SectionOf(fmtLines, i) = <<TitleCase(FirstSegment(URLPathname(url)))>>

\* C21 amended: a page whose path matches a key pattern stands under Key
\* Pages, before every page that matches none, whatever topic rows match as
\* well; every other page stands under the label of the first matching topic
\* row, or under its title-cased first path segment when no row matches, or
\* under Key Pages when its path has no segment or its url is no URL.
C21_Classification ==
  fmtPc = "done" =>
    \A i \in 1..Len(fmtLines) :
      fmtLines[i].kind = "page" =>
        LET url == fmtLines[i].url
        IN  IF MatchesKeyPattern(url)
            THEN /\ SectionOf(fmtLines, i) = <<KeyPagesLabel>>
                 /\ \A j \in PageLinesAbove(fmtLines, i) : MatchesKeyPattern(fmtLines[j].url)
            ELSE IF MatchingRows(url) # {}
            THEN SectionOf(fmtLines, i) = <<FirstRowLabel(url)>>
            ELSE IF HasSegment(url)
            THEN SectionOf(fmtLines, i) = <<TitleCase(FirstSegment(URLPathname(url)))>>
            ELSE SectionOf(fmtLines, i) = <<KeyPagesLabel>>

\* C21 witness: a document with a key page that a topic row matches too, a
\* page two topic rows match, and a page no row matches.
C21_Witness ==
  /\ fmtPc = "done"
  /\ \E i, j, k \in 1..Len(fmtLines) :
       /\ fmtLines[i].kind = "page" /\ fmtLines[j].kind = "page" /\ fmtLines[k].kind = "page"
       /\ MatchesKeyPattern(fmtLines[i].url) /\ MatchingRows(fmtLines[i].url) # {}
       /\ ~MatchesKeyPattern(fmtLines[j].url) /\ Cardinality(MatchingRows(fmtLines[j].url)) = 2
       /\ ~MatchesKeyPattern(fmtLines[k].url) /\ MatchingRows(fmtLines[k].url) = {}
       /\ HasSegment(fmtLines[k].url)
       /\ SectionOf(fmtLines, k) # <<KeyPagesLabel>>

\* The texts of the headings of a document, in document order.
HeadingTexts(lines) ==
  LET hs == SelectSeq(lines, LAMBDA l : l.kind = "heading")
  IN  [k \in 1..Len(hs) |-> hs[k].text]

\* The labels of the pages ps that match no key pattern, each once, in the
\* order of their first occurrence; seen holds the labels met so far.
RECURSIVE TopicLabelsInOrder(_, _)
TopicLabelsInOrder(ps, seen) ==
  IF ps = <<>> THEN <<>>
  ELSE LET label == getSectionLabel(Head(ps).url)
       IN  IF MatchesKeyPattern(Head(ps).url) \/ label \in seen
           THEN TopicLabelsInOrder(Tail(ps), seen)
           ELSE <<label>> \o TopicLabelsInOrder(Tail(ps), seen \cup {label})

\* The document has guideline lines.
HasGuidelineLines(lines) == \E i \in 1..Len(lines) : lines[i].kind = "guideline"

\* C22: the sections come in the order Key Pages, then the topic sections in
\* the order in which their label first occurs in the input, then Answering
\* Guidelines last; inside every section the pages keep their relative input
\* order.
C22_SectionOrder ==
  fmtPc = "done" =>
    /\ HeadingTexts(fmtLines) =
         (IF \E k \in 1..Len(fmtPages) : MatchesKeyPattern(fmtPages[k].url)
          THEN <<KeyPagesLabel>> ELSE <<>>)
         \o TopicLabelsInOrder(fmtPages, {})
         \o (IF HasGuidelineLines(fmtLines) THEN <<GuidelinesLabel>> ELSE <<>>)
    /\ \A i \in HeadingsOf(fmtLines) :
         SectionEntries(fmtLines, i) = InInputOrder(SectionEntries(fmtLines, i))
    /\ \A i \in 1..Len(fmtLines) :
         fmtLines[i].kind = "guideline" =>
           SectionOf(fmtLines, i) = <<GuidelinesLabel>>

\* C22 witness: a document with Key Pages, two topic sections and Answering
\* Guidelines, from a list whose key page is the last page.
C22_Witness ==
  /\ fmtPc = "done"
  /\ Len(fmtPages) = 3
  /\ MatchesKeyPattern(fmtPages[3].url)
  /\ Len(HeadingTexts(fmtLines)) = 4
  /\ HeadingTexts(fmtLines)[1] = KeyPagesLabel
  /\ HeadingTexts(fmtLines)[4] = GuidelinesLabel
  /\ HeadingTexts(fmtLines)[2] = getSectionLabel(fmtPages[1].url)
  /\ HeadingTexts(fmtLines)[3] = getSectionLabel(fmtPages[2].url)

\* The three categories of the guidelines, in their fixed order.
GuidelineCategories ==
  << [topic |-> "pricing", words |-> {"pricing"}],
     [topic |-> "licensing", words |-> {"license", "legal", "terms"}],
     [topic |-> "support", words |-> {"help", "support", "faq"}] >>

\* The positions of the input pages whose path matches category c.
CategoryMatches(c) ==
  { k \in 1..Len(fmtPages) :
      /\ URLValid(fmtPages[k].url)
      /\ \E i \in 1..(Len(URLPathname(fmtPages[k].url)) - 1) :
           /\ URLPathname(fmtPages[k].url)[i] = "/"
           /\ ToLower(URLPathname(fmtPages[k].url)[i + 1]) \in GuidelineCategories[c].words }

\* The line of category c: none without a match, else the topic with the url
\* of the first matching page.
CategoryLine(c) ==
  IF CategoryMatches(c) = {} THEN <<>>
  ELSE LET first == CHOOSE k \in CategoryMatches(c) : \A j \in CategoryMatches(c) : k <= j
       IN  << [topic |-> GuidelineCategories[c].topic, url |-> fmtPages[first].url] >>

\* The guideline lines of a document as topic and url, in document order.
GuidelineLinesOf(lines) ==
  LET gs == SelectSeq(lines, LAMBDA l : l.kind = "guideline")
  IN  [k \in 1..Len(gs) |-> [topic |-> gs[k].text[1], url |-> gs[k].url]]

\* C23: the Answering Guidelines section is emitted exactly when a page of
\* the input matches pricing, license/legal/terms or help/support/faq; it
\* then has one line per category found, in that order, citing the first
\* matching page in input order, and the do-not-guess line last.
C23_Guidelines ==
  fmtPc = "done" =>
    LET found == \E c \in 1..3 : CategoryMatches(c) # {}
    IN  /\ (GuidelinesLabel \in Range(HeadingTexts(fmtLines))) <=> found
        /\ HasGuidelineLines(fmtLines) <=> found
        /\ found =>
             GuidelineLinesOf(fmtLines) =
               CategoryLine(1) \o CategoryLine(2) \o CategoryLine(3)
                 \o << [topic |-> "do not guess", url |-> Empty] >>

\* C23 witness: two pricing pages and a support page, no licensing page; the
\* section cites the first pricing page of the input, which is not /pricing.
C23_Witness ==
  /\ fmtPc = "done"
  /\ Cardinality(CategoryMatches(1)) = 2
  /\ CategoryMatches(2) = {}
  /\ CategoryMatches(3) # {}
  /\ Len(GuidelineLinesOf(fmtLines)) = 3
  /\ GuidelineLinesOf(fmtLines)[1].url = <<"https://example.com", "/", "docs", "/", "Pricing">>

\* A document without the section: pages, none of which matches a category.
C23_WitnessNone ==
  /\ fmtPc = "done"
  /\ Len(fmtPages) = 3
  /\ \A c \in 1..3 : CategoryMatches(c) = {}
  /\ ~HasGuidelineLines(fmtLines)

\* The URLs the guideline lines of a document cite.
CitedUrls(lines) ==
  { lines[k].url : k \in { j \in 1..Len(lines) :
                             lines[j].kind = "guideline" /\ lines[j].url # Empty } }

\* C37: every URL cited in a line of the Answering Guidelines section is the
\* URL of a page listed in the Key Pages section of the same document, which
\* is its first section.
C37_CitedAreKeyPages ==
  (fmtPc = "done" /\ CitedUrls(fmtLines) # {}) =>
    /\ HeadingsOf(fmtLines) # {}
    /\ LET first == CHOOSE i \in HeadingsOf(fmtLines) : \A k \in HeadingsOf(fmtLines) : i <= k
       IN  /\ fmtLines[first].text = KeyPagesLabel
           /\ \A u \in CitedUrls(fmtLines) :
                \E j \in 1..Len(SectionEntries(fmtLines, first)) :
                  SectionEntries(fmtLines, first)[j].url = u

\* C37 witness: the guidelines cite a pricing page below /docs and the support
\* page, and both are listed under Key Pages, ahead of a blog post.
C37_Witness ==
  /\ fmtPc = "done"
  /\ CitedUrls(fmtLines) = { <<"https://example.com", "/", "docs", "/", "Pricing">>,
                             <<"https://example.com", "/", "support">> }
  /\ Len(fmtPages) = 3
  /\ Len(SectionEntries(fmtLines, 7)) = 2
  /\ fmtLines[7].text = KeyPagesLabel

\* C38: no two sections of one formatLlmTxt output carry the same heading.
C38_HeadingsDistinct ==
  fmtPc = "done" => NoDup(HeadingTexts(fmtLines))

\* C38 for the topic sections: the headings made from the section map, those
\* after the section of the key pages and before the guidelines, differ from
\* one another.
C38_TopicHeadingsDistinct ==
  fmtPc = "done" =>
    LET hs     == HeadingTexts(fmtLines)
        from   == IF KeyPages(fmtPages) # <<>> THEN 2 ELSE 1
        to     == IF HasGuidelineLines(fmtLines) THEN Len(hs) - 1 ELSE Len(hs)
    IN  NoDup(SubSeq(hs, from, to))

\* C38: the home page and a page whose url is no URL were formatted; the
\* document has two sections headed Key Pages.
C38_TwoKeyPagesWitness ==
  /\ fmtPc = "done"
  /\ Len(fmtPages) = 2
  /\ fmtPages[1].url = <<"https://example.com", "/">>
  /\ fmtPages[2].url = <<"not a url">>
  /\ HeadingTexts(fmtLines) = <<KeyPagesLabel, KeyPagesLabel>>

\* C38: three pages of two topics were formatted into two topic sections.
C38_TopicWitness ==
  /\ fmtPc = "done"
  /\ Len(fmtPages) = 3
  /\ KeyPages(fmtPages) = <<>>
  /\ Len(HeadingTexts(fmtLines)) = 2
  /\ KeyPagesLabel \notin Range(HeadingTexts(fmtLines))

\* lines.join('\n') ends with a newline: the last element of lines is ''.
EndsWithNewline(lines) == Len(lines) >= 2 /\ lines[Len(lines)] = Blank

\* C24: for an empty page list the document still has the title line, the
\* description blockquote and a Key Pages heading, without entries, and
\* ends with a newline.
C24_EmptyListDocument ==
  (fmtPc = "done" /\ fmtPages = <<>>) =>
    /\ fmtLines[1] = Line("title", fmtSiteName, Empty, Empty)
    /\ fmtLines[3] = Line("quote", fmtDescription, Empty, Empty)
    /\ KeyPagesLabel \in Range(HeadingTexts(fmtLines))
    /\ PageLinesOf(fmtLines) = <<>>
    /\ EndsWithNewline(fmtLines)

\* C24 without the heading: title line, blockquote, no entries, final newline.
C24_EmptyListHeader ==
  (fmtPc = "done" /\ fmtPages = <<>>) =>
    /\ fmtLines[1] = Line("title", fmtSiteName, Empty, Empty)
    /\ fmtLines[3] = Line("quote", fmtDescription, Empty, Empty)
    /\ HeadingTexts(fmtLines) = <<>>
    /\ PageLinesOf(fmtLines) = <<>>
    /\ EndsWithNewline(fmtLines)

\* The case of C24_EmptyListHeader: a document for no pages.
C24_EmptyListWitness == fmtPc = "done" /\ fmtPages = <<>> /\ Len(fmtLines) = 6

\* The first non-empty of the texts ts, empty when all are.
RECURSIVE FirstNonEmpty(_)
FirstNonEmpty(ts) ==
  IF ts = <<>> THEN Empty
  ELSE IF Head(ts) # Empty THEN Head(ts)
  ELSE FirstNonEmpty(Tail(ts))

\* What a page is described by before cleaning, and what stripping the
\* boilerplate leaves of it.
RawDescription(p) == FirstNonEmpty(<<p.description, p.h1, p.title, p.url>>)
Stripped(desc) == Trim(StripAvailabilitySuffix(StripInventoryPrefix(desc)))

\* C27: the description in the line of a page with a non-empty url is not
\* empty: it is the first non-empty of description, h1, title and url,
\* cleaned, and the uncleaned text when cleaning leaves nothing.
C27_DescriptionNotEmpty ==
  fmtPc = "done" =>
    /\ \A i \in 1..Len(fmtLines) :
         (fmtLines[i].kind = "page" /\ fmtLines[i].url # Empty) => fmtLines[i].desc # Empty
    /\ \A k \in 1..Len(fmtPages) :
         fmtPages[k].url # Empty =>
           \E i \in 1..Len(fmtLines) :
             /\ fmtLines[i].kind = "page"
             /\ fmtLines[i].url = fmtPages[k].url
             /\ fmtLines[i].desc =
                  (IF Stripped(RawDescription(fmtPages[k])) = Empty
                   THEN RawDescription(fmtPages[k])
                   ELSE Stripped(RawDescription(fmtPages[k])))

\* C27 witness: a page whose description is boilerplate only and keeps it, a
\* page described by its url, and a page whose description was shortened.
C27_Witness ==
  /\ fmtPc = "done"
  /\ \E i, j, k \in 1..Len(fmtPages) :
       /\ fmtPages[i].description # Empty
       /\ Stripped(fmtPages[i].description) = Empty
       /\ RawDescription(fmtPages[j]) = fmtPages[j].url
       /\ Stripped(fmtPages[k].description) \notin {Empty, fmtPages[k].description}
  /\ \E i \in 1..Len(fmtLines) :
       /\ fmtLines[i].kind = "page"
       /\ fmtLines[i].desc = <<"[en dash]", "Available", " ", "now">>

\* The document parseSitemapXml was first called on: the text handed to it, or
\* the body fetchSitemap got for the requested URL.
RootDoc == IF smMode = "parse" THEN smXml ELSE smWeb[smUrl].body

\* C30: every list parseSitemapXml or fetchSitemap returns, the list
\* assembled from the children of a sitemapindex included, is in descending
\* order of priority.
C30_EveryListSorted == smPc = "done" => SortedByPriority(smResult)

\* C30, the part that holds: the list returned for a urlset is in descending
\* order of priority, and so is every list a child urlset contributed to the
\* outermost index, whose result is those lists one after the other, cut at
\* the limit.
C30_UrlsetListsSorted ==
  smPc = "done" =>
    /\ RootDoc.kids = Empty => SortedByPriority(smResult)
    /\ \A k \in 1..Len(smRootGot) :
         (smRootGot[k].ok /\ k <= Len(RootDoc.kids)
            /\ Trim(RootDoc.kids[k]) \in SitemapUrls
            /\ smWeb[Trim(RootDoc.kids[k])].body.kids = Empty) =>
           SortedByPriority(smRootGot[k].entries)

\* C30: an index of two sitemaps returned the two entries of the first, in
\* descending order, followed by the entry of the second, whose priority is
\* the highest of the three.
C30_IndexWitness ==
  /\ smPc = "done"
  /\ smMode = "parse"
  /\ Len(RootDoc.kids) = 2
  /\ Len(smResult) = 3
  /\ smResult[1].priority > smResult[2].priority
  /\ smResult[3].priority > smResult[1].priority

\* C30: a fetched urlset returned two entries in the reverse of their order
\* in the document.
C30_UrlsetWitness ==
  /\ smPc = "done"
  /\ smMode = "fetch"
  /\ RootDoc.kids = Empty
  /\ Len(smResult) = 2
  /\ smResult[1].url = <<"https://example.com", "/", "b">>
  /\ smResult[1].priority > smResult[2].priority

\* The call has ended: it returned or threw.
SmEnded == smPc \in {"done", "threw"}

\* C34: the expansion of a sitemapindex ends for every set of sitemap
\* documents and every limit, an index that lists itself or leads back to
\* itself included.
C34_ExpansionEnds == <>SmEnded

\* C34, what holds instead: the calls go on nesting only with a limit above
\* 0, from an index that is fetched again while it is being expanded, and
\* no entry was gathered between the two fetches.
C34_NestingGathersNothing ==
  smPc = "recurs" =>
    /\ smLimit > 0
    /\ \E k \in 1..Len(smStack) :
         /\ smStack[k].url = smFetchLog[Len(smFetchLog)]
         /\ \A j \in k..Len(smStack) : smStack[j].entries = Empty
         /\ \E i \in 1..(Len(smFetchLog) - 1) : smFetchLog[i] = smStack[k].url

\* C34, what holds instead: the call ends unless the indexes go on nesting.
C34_EndsUnlessNesting == <>(SmEnded \/ smPc = "recurs")

\* C34: fetchSitemap was called for a sitemap that is an index of itself, and
\* fetches it again from within the call.
C34_SelfListingWitness ==
  /\ smMode = "fetch"
  /\ smPc = "recurs"
  /\ smUrl = S1
  /\ smWeb[S1].body = Doc(<<S1>>, Empty)
  /\ smFetchLog = <<S1, S1>>
  /\ smLimit = 1

\* C34: with a limit of 0 the same sitemap is fetched once and the call returns.
C34_ZeroLimitWitness ==
  /\ smMode = "fetch"
  /\ smPc = "done"
  /\ smLimit = 0
  /\ smWeb[S1].body = Doc(<<S1>>, Empty)
  /\ smFetchLog = <<S1>>

\* ------------------------------------------- sitemap.ts: discoverSitemapUrl

\* A sitemap URL a robots.txt declares, and a second one.
CustomSitemap == <<"https://example.com", "/", "custom", ".", "xml">>
OtherSitemap == <<"https://example.com", "/", "other", ".", "xml">>

\* The three default paths, in the order they are pushed.
SitemapPaths ==
  << <<"/", "sitemap", ".", "xml">>,
     <<"/", "sitemap_index", ".", "xml">>,
     <<"/", "sitemap", "/", "sitemap", ".", "xml">> >>

\* `${normalized}/sitemap.xml`, `${normalized}/sitemap_index.xml`,
\* `${normalized}/sitemap/sitemap.xml`.
DefaultCandidates(normalized) ==
  [i \in 1..Len(SitemapPaths) |-> normalized \o SitemapPaths[i]]

\* A text is a list of lines here, a line a list of tokens.
UserAgentLine == <<"User-agent:", " ", "*">>
DisallowLine == <<"Disallow:", " ", "/", "admin">>

\* robots.txt bodies: no directive; a directive; a lower-case directive with
\* no blank before the URL and one after it, followed by a second directive; a
\* directive with nothing but a blank after the colon, followed by another
\* line; the same as the last line of the file; a directive with nothing after
\* the colon as the last line; a directive naming the first default path.
RobotsBodies ==
  { <<UserAgentLine, DisallowLine>>,
    <<UserAgentLine, <<"Sitemap:", " ">> \o CustomSitemap>>,
    << <<"sitemap:">> \o CustomSitemap \o <<" ">>, <<"Sitemap:", " ">> \o OtherSitemap>>,
    << <<"Sitemap:", " ">>, DisallowLine>>,
    <<UserAgentLine, <<"Sitemap:", " ">> >>,
    <<UserAgentLine, <<"Sitemap:">> >>,
    << <<"Sitemap:", " ", "https://example.com", "/", "sitemap", ".", "xml">> >> }

\* Bodies a candidate URL serves: a urlset, an index, a page that is neither.
CandidateBodies ==
  { << <<"<urlset", " ", "xmlns", ">">>, <<"</urlset>">> >>,
    << <<"<sitemapindex", ">">>, <<"</sitemapindex>">> >>,
    << <<"<html>", "Not", " ", "Found", "</html>">> >> }

\* What a fetch can come to: the promise rejects; a response with an error
\* status; a success whose text() rejects; a success with one of the bodies.
FetchOutcomes(bodies) ==
  { [net |-> "error", status |-> 0, readable |-> FALSE, body |-> <<>>],
    [net |-> "ok", status |-> StatusNotFound, readable |-> TRUE, body |-> <<>>],
    [net |-> "ok", status |-> StatusOk, readable |-> FALSE, body |-> <<>>] }
    \cup { [net |-> "ok", status |-> StatusOk, readable |-> TRUE, body |-> b] :
             b \in bodies }

\* fetch(u): a text that is no absolute URL makes fetch reject.
DsFetch(u, bodies) ==
  IF URLValid(u) THEN FetchOutcomes(bodies)
  ELSE {[net |-> "error", status |-> 0, readable |-> FALSE, body |-> <<>>]}

\* Line k opens with Sitemap: in any letter case.
IsDirective(line) == line # Empty /\ ToLower(line[1]) = "sitemap:"

\* The lines after line k up to the first one that is not blank, that one included.
RECURSIVE SkipBlankLines(_)
SkipBlankLines(ls) ==
  IF ls = <<>> THEN <<>>
  ELSE IF TrimLeft(Head(ls)) = Empty THEN SkipBlankLines(Tail(ls))
  ELSE ls

\* /^Sitemap:\s*(.+)$/mi tried at directive line k: \s* runs over blanks and
\* line ends alike, (.+) is the rest of the line it stops in.  The capture is
\* the rest of line k when that is not blank; else the next line that is not
\* blank; else, when nothing but blanks and line ends follow, a blank (if there
\* is one); else there is no match at this line.
DirectiveMatch(lines, k) ==
  LET rest  == Tail(lines[k])
      after == SkipBlankLines(SubSeq(lines, k + 1, Len(lines)))
      blank == \E j \in k..Len(lines) : \E i \in 1..Len(lines[j]) : lines[j][i] = " "
  IN  IF TrimLeft(rest) # Empty THEN [match |-> TRUE, text |-> TrimLeft(rest)]
      ELSE IF after # <<>> THEN [match |-> TRUE, text |-> TrimLeft(Head(after))]
      ELSE IF blank THEN [match |-> TRUE, text |-> <<" ">>]
      ELSE [match |-> FALSE, text |-> Empty]

\* robotsTxt.match(/^Sitemap:\s*(.+)$/mi): the first line at which it matches.
SitemapDirective(lines) ==
  LET hits == { k \in 1..Len(lines) :
                  IsDirective(lines[k]) /\ DirectiveMatch(lines, k).match }
  IN  IF hits = {} THEN [match |-> FALSE, text |-> Empty]
      ELSE DirectiveMatch(lines, CHOOSE k \in hits : \A j \in hits : k <= j)

\* What the robots.txt step pushes on candidates: match[1].trim() when the
\* response is a success, its text can be read and the directive is there.
Declared(r) ==
  IF ResOk(r) /\ r.readable /\ SitemapDirective(r.body).match
  THEN <<Trim(SitemapDirective(r.body).text)>>
  ELSE <<>>

\* The body of a try block throws: the fetch rejects, or text() does.
TryThrows(r) == r.net = "error" \/ (ResOk(r) /\ ~r.readable)

\* text.includes(tok).
Includes(text, tok) ==
  \E j \in 1..Len(text) : \E i \in 1..Len(text[j]) : text[j][i] = tok

\* A candidate accepted whatever its body says.
AcceptsAnyBody(r) == ResOk(r) /\ r.readable

\* The candidate loop returns this url: res.ok and the text includes one of
\* the two tags.
Accepts(r) ==
  /\ ResOk(r)
  /\ r.readable
  /\ (Includes(r.body, "<urlset") \/ Includes(r.body, "<sitemapindex"))

\* A catch block that lets the exception go on.
Rethrow(next) == "threw"

\* catch { /* ignore */ } and catch { /* continue */ }: the call goes on at next.
Swallow(next) == next

\* discoverSitemapUrl(baseUrl) is called.
DsInit ==
  /\ dsBaseUrl \in BaseUrls
  /\ dsPc = "robots"
  /\ dsCandidates = <<>>
  /\ dsIdx = 1
  /\ dsResult = NotFound
  /\ dsRobots = NoAnswer
  /\ dsLog = <<>>

\* baseUrl.replace(/\/$/, '').
Normalized(b) == StripTrailingSlash(b)

\* `${normalized}/robots.txt`.
RobotsUrl(normalized) == normalized \o <<"/", "robots", ".", "txt">>

\* An answer together with the URL that was requested.
AnswerFrom(url, r) ==
  [net |-> r.net, status |-> r.status, readable |-> r.readable, body |-> r.body,
   url |-> url]

\* The robots.txt step and the push of the default paths.
DsRobots ==
  /\ dsPc = "robots"
  /\ \E r \in DsFetch(RobotsUrl(Normalized(dsBaseUrl)), RobotsBodies) :
       /\ dsRobots' = AnswerFrom(RobotsUrl(Normalized(dsBaseUrl)), r)
       /\ dsCandidates' = Declared(r) \o DefaultCandidates(Normalized(dsBaseUrl))
       /\ dsPc' = IF TryThrows(r) THEN Swallow("probe") ELSE "probe"
  /\ UNCHANGED <<dsBaseUrl, dsIdx, dsResult, dsLog, dsOthers>>

\* One turn of the candidate loop: the next candidate is fetched; it is
\* returned when it is accepted, else the loop goes on.
DsProbe ==
  /\ dsPc = "probe"
  /\ dsIdx <= Len(dsCandidates)
  /\ LET url == dsCandidates[dsIdx]
     IN  \E r \in DsFetch(url, CandidateBodies) :
           /\ dsLog' = Append(dsLog, [url |-> url, res |-> r])
           /\ IF TryThrows(r)
              THEN dsPc' = Swallow("probe") /\ dsResult' = dsResult
              ELSE IF Accepts(r)
              THEN dsPc' = "done" /\ dsResult' = [found |-> TRUE, url |-> url]
              ELSE dsPc' = "probe" /\ dsResult' = dsResult
  /\ dsIdx' = dsIdx + 1
  /\ UNCHANGED <<dsBaseUrl, dsCandidates, dsRobots, dsOthers>>

\* The loop is over and nothing was accepted: return null.
DsReturnNull ==
  /\ dsPc = "probe"
  /\ dsIdx > Len(dsCandidates)
  /\ dsPc' = "done"
  /\ dsResult' = NotFound
  /\ UNCHANGED <<dsBaseUrl, dsCandidates, dsIdx, dsRobots, dsLog, dsOthers>>

DsNext ==
  \/ DsRobots
  \/ DsProbe
  \/ DsReturnNull

InitResolve == DsInit /\ CrawlIdle /\ SmIdle /\ FmtIdle /\ RunIdle /\ FtIdle /\ AiIdle /\ FullIdle /\ CtIdle /\ OutIdle /\ ExIdle /\ PoIdle /\ OvIdle

SpecResolve == InitResolve /\ [][DsNext]_vars

FairSpecResolve == SpecResolve /\ WF_vars(DsNext)

\* ------------------------------------------- discoverSitemapUrl: claims

\* A candidate's answer is acceptable: an HTTP success whose body holds
\* `<urlset` or `<sitemapindex`.
Acceptable(r) ==
  /\ r.net = "ok" /\ r.status >= 200 /\ r.status <= 299 /\ r.readable
  /\ \E j \in 1..Len(r.body) : \E i \in 1..Len(r.body[j]) :
       r.body[j][i] \in {"<urlset", "<sitemapindex"}

\* The order in which candidates are to be probed: the URL robots.txt
\* declares, if any, then the three default paths.
ProbeOrder == Declared(dsRobots) \o DefaultCandidates(Normalized(dsBaseUrl))

\* C12: discoverSitemapUrl never raises, whatever fails at the robots.txt step
\* or at a candidate (rejected fetch, error status, unreadable body), and it
\* returns null when no candidate it fetched was acceptable.
C12_NeverRaises ==
  /\ dsPc # "threw"
  /\ (dsPc = "done" /\ \A i \in 1..Len(dsLog) : ~Acceptable(dsLog[i].res))
       => dsResult = NotFound

\* C12 witness: the call returned null after the robots.txt fetch and the
\* fetch of every candidate were rejected by the network.
C12_Witness ==
  /\ dsPc = "done"
  /\ dsResult = NotFound
  /\ dsRobots.net = "error"
  /\ Len(dsLog) = 3
  /\ \A i \in 1..Len(dsLog) : dsLog[i].res.net = "error"

\* C13: candidates are fetched in the order robots.txt-declared URL, then
\* /sitemap.xml, /sitemap_index.xml, /sitemap/sitemap.xml; the call returns the
\* first one whose answer is acceptable and fetches none after it; it returns
\* null only after all of them were fetched and none was acceptable.
C13_FirstAcceptableWins ==
  dsPc \in {"probe", "done"} =>
    /\ Len(dsLog) <= Len(ProbeOrder)
    /\ \A i \in 1..Len(dsLog) : dsLog[i].url = ProbeOrder[i]
    /\ \A i \in 1..(Len(dsLog) - 1) : ~Acceptable(dsLog[i].res)
    /\ dsPc = "probe" => \A i \in 1..Len(dsLog) : ~Acceptable(dsLog[i].res)
    /\ dsPc = "done" =>
         IF dsLog # <<>> /\ Acceptable(dsLog[Len(dsLog)].res)
         THEN dsResult = [found |-> TRUE, url |-> dsLog[Len(dsLog)].url]
         ELSE dsResult = NotFound /\ Len(dsLog) = Len(ProbeOrder)

\* C13 witness: robots.txt declared a sitemap, it was fetched first and
\* accepted, and no default path was fetched.
C13_Witness ==
  /\ dsPc = "done"
  /\ Declared(dsRobots) = <<CustomSitemap>>
  /\ dsResult = [found |-> TRUE, url |-> CustomSitemap]
  /\ Len(dsLog) = 1

\* The origin of the base URL, as a text.
OriginOf(base) == <<URLOrigin(base)>>

\* The last three candidates: the default ones.
DefaultsTried == SubSeq(dsCandidates, Len(dsCandidates) - 2, Len(dsCandidates))

\* C31: for every base URL, one with a non-empty path included, robots.txt is
\* requested at {origin}/robots.txt and the three default candidates are
\* built from the origin of the base URL.
C31_FromOrigin ==
  (dsPc # "robots" /\ dsPc # "idle" /\ URLValid(dsBaseUrl)) =>
    /\ dsRobots.url = RobotsUrl(OriginOf(dsBaseUrl))
    /\ DefaultsTried = DefaultCandidates(OriginOf(dsBaseUrl))

\* C31, the part that holds: the URLs are built from the base URL without its
\* last slash, which is the origin when the base URL has no path, query or
\* fragment.
C31_FromBaseUrl ==
  (dsPc # "robots" /\ dsPc # "idle") =>
    /\ dsRobots.url = RobotsUrl(Normalized(dsBaseUrl))
    /\ DefaultsTried = DefaultCandidates(Normalized(dsBaseUrl))
    /\ (URLValid(dsBaseUrl) /\ URLRest(dsBaseUrl) \in {Empty, <<"/">>}) =>
         /\ dsRobots.url = RobotsUrl(OriginOf(dsBaseUrl))
         /\ DefaultsTried = DefaultCandidates(OriginOf(dsBaseUrl))

\* C31: called with a base URL under /docs, the call asked for
\* /docs/robots.txt and returned /docs/sitemap.xml.
C31_PathWitness ==
  /\ dsPc = "done"
  /\ dsBaseUrl = <<"https://example.com", "/", "docs">>
  /\ dsRobots.url = <<"https://example.com", "/", "docs", "/", "robots", ".", "txt">>
  /\ dsResult = [found |-> TRUE,
                 url |-> <<"https://example.com", "/", "docs", "/", "sitemap", ".", "xml">>]

\* C31: called with the origin and a trailing slash, the call asked for
\* /robots.txt and returned /sitemap.xml.
C31_OriginWitness ==
  /\ dsPc = "done"
  /\ dsBaseUrl = <<"https://example.com", "/">>
  /\ dsRobots.url = <<"https://example.com", "/", "robots", ".", "txt">>
  /\ dsResult = [found |-> TRUE,
                 url |-> <<"https://example.com", "/", "sitemap", ".", "xml">>]

\* ------------------------------------------------ cli: run and discoverUrls

\* Largest --limit given to run.
MaxRunLimit == 2

\* url arguments: a full URL, a host and path without scheme, a text that is
\* no URL, and a word that starts with "http" without being a URL.
RunUrls ==
  { <<"https://example.com">>,
    <<"example.com", "/", "docs", "/">>,
    <<"not a url">>,
    <<"httpbin">> }

\* url.startsWith('http').
StartsWithHttp(url) == url # Empty /\ url[1] \in HostTokens \cup {"httpbin"}

\* `https://${url}`.
WithHttps(url) ==
  IF url # Empty /\ url[1] = "example.com"
  THEN <<"https://example.com">> \o Tail(url)
  ELSE <<"https://">> \o url

\* run's baseUrl.
RunBaseUrl(url) == IF StartsWithHttp(url) THEN url ELSE WithHttps(url)

\* config.exclude: nothing, or one sitemap page and the home page.
Excludes ==
  { {},
    { <<"https://example.com", "/", "a">>, <<"https://example.com">> } }

\* --sitemap: not given, or the URL of a sitemap.
SitemapOpts == {Empty, S1}

\* The error thrown by new URL(baseUrl), by JSON.parse in loadConfig, and the
\* message printed for --firecrawl with --browser.
InvalidUrlError == [kind |-> "invalid url", url |-> Empty, status |-> 0]
ConfigError == [kind |-> "config", url |-> Empty, status |-> 0]
FlagsError == [kind |-> "flags", url |-> Empty, status |-> 0]

\* The code of process.exit(1).
ExitFailure == 1

\* run(url, opts) is called by the action handler.
RunInit ==
  /\ runUrl \in RunUrls
  /\ runSitemapOpt \in SitemapOpts
  /\ runLimit \in 1..MaxRunLimit
  /\ runMode \in {"plain", "browser", "firecrawl", "both"}
  /\ runConfig \in {"missing", "valid", "broken"}
  /\ runExcluded \in (IF runConfig = "valid" THEN Excludes ELSE {{}})
  /\ runPc = "start"
  /\ runCalls = <<>>
  /\ runSitemapUrl = NotFound
  /\ runUrls = <<>>
  /\ runError = NoError
  /\ runExit = -1

\* What stops run before URL discovery, in the order the code meets it:
\* loadConfig throws, new URL(baseUrl) throws, both renderers are asked for.
StartError ==
  IF runConfig = "broken" THEN ConfigError
  ELSE IF ~URLValid(RunBaseUrl(runUrl)) THEN InvalidUrlError
  ELSE IF runMode = "both" THEN FlagsError
  ELSE NoError

\* fetchSitemap(url, lim) is called: its frame.
CallFetchSitemap(url, lim) ==
  /\ smMode' = "fetch"
  /\ smXml' = Doc(Empty, Empty)
  /\ smUrl' = url
  /\ smLimit' = lim
  /\ smWeb' = [u \in SitemapUrls |-> Unknown]
  /\ smStack' = Empty
  /\ smPc' = "init"
  /\ smResult' = Empty
  /\ smFetchLog' = Empty
  /\ smRootGot' = Empty
  /\ smError' = NoError

\* discoverSitemapUrl(base) is called: its frame.
CallDiscoverSitemapUrl(base) ==
  /\ dsBaseUrl' = base
  /\ dsPc' = "robots"
  /\ dsCandidates' = <<>>
  /\ dsIdx' = 1
  /\ dsResult' = NotFound
  /\ dsRobots' = NoAnswer
  /\ dsLog' = <<>>

\* discoverSitemapUrl has returned: its frame is gone.
DiscoverSitemapUrlGone ==
  /\ dsBaseUrl' = Empty
  /\ dsPc' = "idle"
  /\ dsCandidates' = <<>>
  /\ dsIdx' = 0
  /\ dsResult' = NotFound
  /\ dsRobots' = NoAnswer
  /\ dsLog' = <<>>

\* crawlSite(base, lim) is called: its frame.
CallCrawlSite(base, lim) ==
  /\ baseUrl' = base
  /\ limit' = lim
  /\ origin' = "null"
  /\ visited' = {}
  /\ queue' = Empty
  /\ entries' = Empty
  /\ pc' = "init"
  /\ cur' = Empty
  /\ linkNo' = 0
  /\ fetchLog' = Empty
  /\ failed' = {}
  /\ enqueued' = Empty
  /\ skipped' = {}

\* sitemapEntries.filter(e => !excluded.has(e.url)).slice(0, limit).map(e => e.url).
DiscoveredUrls(es, excluded, lim) ==
  LET kept == Slice(SelectSeq(es, LAMBDA e : e.url \notin excluded), lim)
  IN  [i \in 1..Len(kept) |-> kept[i].url]

\* A --sitemap option that is never honoured.
SitemapGivenNever(opt) == FALSE

\* if (sitemapOpt): the option is given and not the empty text.
SitemapGiven(opt) == opt # Empty

\* if (sitemapUrl): discoverSitemapUrl returned a URL.
SitemapFound(res) == res.found /\ res.url # Empty

\* A discoverUrls that falls back to the crawl when fetchSitemap throws.
AfterFetchSitemapThrowCrawl == "crawl"

\* Where run goes when fetchSitemap throws: neither discoverUrls nor run
\* catches, so the action handler does, prints the message and exits.
AfterFetchSitemapThrow == "exit"

\* The inputs of run, which no step changes.
runInputs == <<runUrl, runSitemapOpt, runLimit, runMode, runConfig, runExcluded>>

\* run stops before URL discovery: the action handler prints the error (or
\* run prints its own) and the process exits with code 1.
RunStartExit ==
  /\ runPc = "start"
  /\ StartError # NoError
  /\ runPc' = "exit"
  /\ runError' = StartError
  /\ runExit' = ExitFailure
  /\ UNCHANGED <<runInputs, runCalls, runSitemapUrl, runUrls,
                 crawlVars, smVars, dsVars, runOthers>>

\* --firecrawl: crawlWithFirecrawl is called, discoverUrls is not.
RunStartFirecrawl ==
  /\ runPc = "start"
  /\ StartError = NoError
  /\ runMode = "firecrawl"
  /\ runPc' = "firecrawl"
  /\ UNCHANGED <<runInputs, runCalls, runSitemapUrl, runUrls, runError, runExit,
                 crawlVars, smVars, dsVars, runOthers>>

\* discoverUrls with a sitemap option: fetchSitemap(sitemapOpt, limit) is called.
RunUseSitemapOpt ==
  /\ runPc = "start"
  /\ StartError = NoError
  /\ runMode \in {"plain", "browser"}
  /\ SitemapGiven(runSitemapOpt)
  /\ CallFetchSitemap(runSitemapOpt, runLimit)
  /\ runCalls' = Append(runCalls, "fetchSitemap")
  /\ runPc' = "fetchSitemap"
  /\ UNCHANGED <<runInputs, runSitemapUrl, runUrls, runError, runExit,
                 crawlVars, dsVars, runOthers>>

\* discoverUrls without one: discoverSitemapUrl(baseUrl) is called.
RunDiscover ==
  /\ runPc = "start"
  /\ StartError = NoError
  /\ runMode \in {"plain", "browser"}
  /\ ~SitemapGiven(runSitemapOpt)
  /\ CallDiscoverSitemapUrl(RunBaseUrl(runUrl))
  /\ runCalls' = Append(runCalls, "discoverSitemapUrl")
  /\ runPc' = "discover"
  /\ UNCHANGED <<runInputs, runSitemapUrl, runUrls, runError, runExit,
                 crawlVars, smVars, runOthers>>

\* discoverSitemapUrl returned a URL: fetchSitemap(sitemapUrl, limit) is called.
RunFoundSitemap ==
  /\ runPc = "discover"
  /\ dsPc = "done"
  /\ SitemapFound(dsResult)
  /\ runSitemapUrl' = dsResult
  /\ DiscoverSitemapUrlGone
  /\ CallFetchSitemap(dsResult.url, runLimit)
  /\ runCalls' = Append(runCalls, "fetchSitemap")
  /\ runPc' = "fetchSitemap"
  /\ UNCHANGED <<runInputs, runUrls, runError, runExit, crawlVars, runOthers>>

\* discoverSitemapUrl returned null: crawlSite(baseUrl, limit) is called.
RunNoSitemap ==
  /\ runPc = "discover"
  /\ dsPc = "done"
  /\ ~SitemapFound(dsResult)
  /\ runSitemapUrl' = dsResult
  /\ DiscoverSitemapUrlGone
  /\ CallCrawlSite(RunBaseUrl(runUrl), runLimit)
  /\ runCalls' = Append(runCalls, "crawlSite")
  /\ runPc' = "crawl"
  /\ UNCHANGED <<runInputs, runUrls, runError, runExit, smVars, runOthers>>

\* fetchSitemap returned: discoverUrls filters, slices and returns the URLs.
RunSitemapFetched ==
  /\ runPc = "fetchSitemap"
  /\ smPc = "done"
  /\ runUrls' = DiscoveredUrls(smResult, runExcluded, runLimit)
  /\ runPc' = "urls"
  /\ UNCHANGED <<runInputs, runCalls, runSitemapUrl, runError, runExit,
                 crawlVars, smVars, dsVars, runOthers>>

\* fetchSitemap threw.
RunSitemapThrew ==
  /\ runPc = "fetchSitemap"
  /\ smPc = "threw"
  /\ IF AfterFetchSitemapThrow = "exit"
     THEN /\ runPc' = "exit"
          /\ runError' = smError
          /\ runExit' = ExitFailure
          /\ UNCHANGED <<runCalls, crawlVars>>
     ELSE /\ CallCrawlSite(RunBaseUrl(runUrl), runLimit)
          /\ runCalls' = Append(runCalls, "crawlSite")
          /\ runPc' = "crawl"
          /\ UNCHANGED <<runError, runExit>>
  /\ UNCHANGED <<runInputs, runSitemapUrl, runUrls, smVars, dsVars, runOthers>>

\* crawlSite returned: discoverUrls filters, slices and returns the URLs.
RunCrawled ==
  /\ runPc = "crawl"
  /\ pc = "done"
  /\ runUrls' = DiscoveredUrls(entries, runExcluded, runLimit)
  /\ runPc' = "urls"
  /\ UNCHANGED <<runInputs, runCalls, runSitemapUrl, runError, runExit,
                 crawlVars, smVars, dsVars, runOthers>>

\* The url fields of the pages Firecrawl may report for the site.
FirecrawlUrls ==
  { <<"https://example.com">>,
    <<"https://example.com", "/", "a">>,
    <<"https://example.com", "/", "b">> }

\* The data arrays a completed crawl job may carry, as the urls of its pages.
FirecrawlAnswers == SeqsUpTo(FirecrawlUrls, MaxRunLimit + 1)

\* mapToPageData(page) for a page with a title and no other text.
mapToPageData(url) == Page(url, <<"Test", " ", "Page">>, Empty, Empty)

\* crawlWithFirecrawl(url, apiKey, limit) for a job that completed with the
\* pages served: pages.slice(0, limit).map(mapToPageData).
crawlWithFirecrawl(served, lim) ==
  LET pages == Slice(served, lim)
  IN  [i \in 1..Len(pages) |-> mapToPageData(pages[i])]

\* rawPages.filter(p => !excluded.has(p.url)).
NotExcluded(pages, excluded) == SelectSeq(pages, LAMBDA p : p.url \notin excluded)


\* The positions of S in increasing order.
RECURSIVE Ascending(_)
Ascending(S) ==
  IF S = {} THEN <<>>
  ELSE LET m == CHOOSE x \in S : \A y \in S : x <= y
       IN  <<m>> \o Ascending(S \ {m})

\* pages.filter(p => p !== null) when the tasks at the positions ok returned
\* data and the others null.
FetchedPages(urls, ok) ==
  LET ks == Ascending(ok)
  IN  [i \in 1..Len(ks) |-> ExtractPageData(urls[ks[i]])]

\* The errors of the page stage: FIRECRAWL_API_KEY is not set, the Firecrawl
\* job failed, Playwright is missing or a tab could not be handled.
ApiKeyError == [kind |-> "api key", url |-> Empty, status |-> 0]
FirecrawlError == [kind |-> "firecrawl", url |-> Empty, status |-> 0]
BrowserError == [kind |-> "browser", url |-> Empty, status |-> 0]

\* finalPages.find(p => pathname === '/') ?? finalPages[0], as a position (0
\* when there is no page).
HomePage(pages) ==
  LET homes == { k \in 1..Len(pages) :
                   URLValid(pages[k].url) /\ URLPathname(pages[k].url) = <<"/">> }
  IN  IF homes # {} THEN CHOOSE k \in homes : \A j \in homes : k <= j
      ELSE IF pages # <<>> THEN 1 ELSE 0

\* config.siteName ?? homePage?.title ?? new URL(baseUrl).hostname, for a
\* config that names no site.
RunSiteName(pages) ==
  IF HomePage(pages) = 0 THEN <<"example.com">> ELSE pages[HomePage(pages)].title

\* config.siteDescription ?? homePage?.description ?? `Website at ${origin}`.
RunSiteDescription(pages) ==
  IF HomePage(pages) = 0 THEN <<"Website at ", "https://example.com">>
  ELSE pages[HomePage(pages)].description

\* What the page stage and the formatting of run leave alone, besides the
\* functions discoverUrls calls.
pageOthers == <<fmtVars, ftVars, aiVars, fullVars, ctVars, exVars, poVars, ovVars>>

\* --firecrawl without FIRECRAWL_API_KEY: run prints the error and exits.
RunFirecrawlNoKey ==
  /\ runPc = "firecrawl"
  /\ runPc' = "exit"
  /\ runError' = ApiKeyError
  /\ runExit' = ExitFailure
  /\ UNCHANGED <<runInputs, runCalls, runSitemapUrl, runUrls,
                 crawlVars, smVars, dsVars, runOthers>>

\* crawlWithFirecrawl throws: the job could not be started or polled, failed
\* or timed out.
RunFirecrawlThrew ==
  /\ runPc = "firecrawl"
  /\ runPc' = "exit"
  /\ runError' = FirecrawlError
  /\ runExit' = ExitFailure
  /\ UNCHANGED <<runInputs, runCalls, runSitemapUrl, runUrls,
                 crawlVars, smVars, dsVars, runOthers>>

\* crawlWithFirecrawl returns the pages of the job: every one of them was
\* crawled and mapped, the excluded ones are dropped afterwards.
RunFirecrawled ==
  /\ runPc = "firecrawl"
  /\ \E served \in FirecrawlAnswers :
       LET rawPages == crawlWithFirecrawl(served, runLimit)
       IN  /\ runFetched' = [i \in 1..Len(rawPages) |-> rawPages[i].url]
           /\ runPages' = NotExcluded(rawPages, runExcluded)
  /\ runPc' = "pages"
  /\ UNCHANGED <<runInputs, runCalls, runSitemapUrl, runUrls, runError, runExit,
                 runDoc, crawlVars, smVars, dsVars, pageOthers>>

\* processInBatches or fetchPagesWithBrowser returns: every URL of the list
\* was handed to the fetcher, the pages of those that answered are kept.
RunFetchPages ==
  /\ runPc = "urls"
  /\ runMode \in {"plain", "browser"}
  /\ runFetched' = runUrls
  /\ \E ok \in SUBSET (1..Len(runUrls)) : runPages' = FetchedPages(runUrls, ok)
  /\ runPc' = "pages"
  /\ UNCHANGED <<runInputs, runCalls, runSitemapUrl, runUrls, runError, runExit,
                 runDoc, crawlVars, smVars, dsVars, pageOthers>>

\* fetchPagesWithBrowser throws after handing some of the URLs to the
\* browser: Playwright is missing, or newPage or close rejected.
RunBrowserThrew ==
  /\ runPc = "urls"
  /\ runMode = "browser"
  /\ \E n \in 0..Len(runUrls) : runFetched' = SubSeq(runUrls, 1, n)
  /\ runPc' = "exit"
  /\ runError' = BrowserError
  /\ runExit' = ExitFailure
  /\ UNCHANGED <<runInputs, runCalls, runSitemapUrl, runUrls, runPages, runDoc,
                 crawlVars, smVars, dsVars, pageOthers>>

\* Without --ai: the site name and description are taken from the home page
\* and llm.txt is formatted from validPages.
RunFormat ==
  /\ runPc = "pages"
  /\ \E now \in Clock :
       runDoc' = formatLlmTxt(RunSiteName(runPages), RunSiteDescription(runPages),
                              runPages, now)
  /\ runPc' = "done"
  /\ UNCHANGED <<runInputs, runCalls, runSitemapUrl, runUrls, runError, runExit,
                 runFetched, runPages, crawlVars, smVars, dsVars, pageOthers>>

\* The steps of run and of the functions discoverUrls calls.  crawlSite is
\* only called with a base URL that new URL accepted, parseSitemapXml only by
\* fetchSitemap.
RunNext ==
  \/ RunStartExit
  \/ RunStartFirecrawl
  \/ RunUseSitemapOpt
  \/ RunDiscover
  \/ RunFoundSitemap
  \/ RunNoSitemap
  \/ RunSitemapFetched
  \/ RunSitemapThrew
  \/ RunCrawled
  \/ RunFirecrawlNoKey
  \/ RunFirecrawlThrew
  \/ RunFirecrawled
  \/ RunFetchPages
  \/ RunBrowserThrew
  \/ RunFormat
  \/ DsRobots
  \/ DsProbe
  \/ DsReturnNull
  \/ SmStartFetchFail
  \/ SmStartFetchOk
  \/ SmChildFail
  \/ SmChildOk
  \/ SmChildRecurs
  \/ SmReturn
  \/ CrawlStart
  \/ CrawlDequeue
  \/ CrawlFetchFail
  \/ CrawlFetchOk
  \/ \E href \in Hrefs : CrawlLink(href)
  \/ CrawlLinksEnd
  \/ CrawlReturn

InitRun == RunInit /\ CrawlIdle /\ SmIdle /\ DsIdle /\ FmtIdle /\ FtIdle /\ AiIdle /\ FullIdle /\ CtIdle /\ OutIdle /\ ExIdle /\ PoIdle /\ OvIdle

SpecRun == InitRun /\ [][RunNext]_vars



\* ------------------------------------------------------------- run: claims

\* discoverUrls has called crawlSite.
CrawlCalled == \E i \in 1..Len(runCalls) : runCalls[i] = "crawlSite"

\* discoverUrls has called fetchSitemap.
FetchSitemapCalled == \E i \in 1..Len(runCalls) : runCalls[i] = "fetchSitemap"

\* The answer the requested sitemap URL gave is an HTTP response outside 2xx.
RootNot2xx ==
  /\ smUrl \in SitemapUrls
  /\ smWeb[smUrl].net = "ok"
  /\ (smWeb[smUrl].status < 200 \/ smWeb[smUrl].status > 299)

\* C14: when the response for the requested sitemap URL is not 2xx,
\* fetchSitemap throws an error that carries the URL and the status code and
\* returns nothing; when the sitemap was requested with --sitemap, run handles
\* that by exiting with code 1 and that error, having called nothing but
\* fetchSitemap: no URL list, no crawl.
C14_HttpErrorIsHard ==
  /\ RootNot2xx =>
       /\ smPc = "threw"
       /\ smResult = Empty
       /\ smError = [kind |-> "http", url |-> smUrl, status |-> smWeb[smUrl].status]
  /\ (RootNot2xx /\ runSitemapOpt # Empty) =>
       /\ runPc \in {"fetchSitemap", "exit"}
       /\ runCalls = <<"fetchSitemap">>
       /\ runUrls = <<>>
       /\ pc = "idle"
       /\ runPc = "exit" => (runExit = ExitFailure /\ runError = smError)

\* C14 witness: --sitemap named a URL that answered 404 and the run exited
\* with code 1 and an error carrying 404.
C14_Witness ==
  /\ runSitemapOpt = S1
  /\ RootNot2xx
  /\ runPc = "exit"
  /\ runExit = ExitFailure
  /\ runError = [kind |-> "http", url |-> S1, status |-> StatusNotFound]

\* C15: discoverUrls calls crawlSite if and only if no sitemap option was
\* given and discoverSitemapUrl returned null; once fetchSitemap is called, for
\* a given or a discovered sitemap, crawlSite is not called, whether
\* fetchSitemap returns entries, returns none or throws.
C15_CrawlOnlyWhenNotFound ==
  /\ CrawlCalled =>
       /\ runSitemapOpt = Empty
       /\ runCalls = <<"discoverSitemapUrl", "crawlSite">>
       /\ ~runSitemapUrl.found
  /\ (pc # "idle") = CrawlCalled
  /\ FetchSitemapCalled => ~CrawlCalled
  /\ (/\ runSitemapOpt = Empty
      /\ Len(runCalls) >= 2
      /\ ~runSitemapUrl.found) => CrawlCalled
  /\ (Len(runCalls) >= 2 /\ runSitemapUrl.found) =>
       runCalls = <<"discoverSitemapUrl", "fetchSitemap">>
  /\ (runPc \in {"urls", "pages", "done", "exit"} /\ runCalls # <<>>) =>
       (CrawlCalled = (runSitemapOpt = Empty /\ ~runSitemapUrl.found))

\* C15 witness: no sitemap option, discovery found nothing, the crawl ran and
\* its pages were returned.
C15_Witness ==
  /\ runSitemapOpt = Empty
  /\ runCalls = <<"discoverSitemapUrl", "crawlSite">>
  /\ runPc = "urls"
  /\ runUrls # <<>>

\* The urls of the page entries of llm.txt.
RunListedUrls ==
  { runDoc[i].url : i \in { j \in 1..Len(runDoc) : runDoc[j].kind = "page" } }

\* The URLs handed to page fetching and extraction.
RunFetchedUrls == { runFetched[i] : i \in 1..Len(runFetched) }

\* C28: an excluded URL is filtered out before fetching in each of the three
\* fetch modes: it is never handed to page fetching and extraction, and no
\* page with that URL is listed in the document.
C28_ExcludedNeverFetched ==
  /\ RunFetchedUrls \cap runExcluded = {}
  /\ RunListedUrls \cap runExcluded = {}

\* C28, the part that holds: without --firecrawl an excluded URL is not handed
\* to the fetcher, and in every mode no page with an excluded URL is among the
\* pages formatted or listed in the document.
C28_ExcludedNotListed ==
  /\ runMode # "firecrawl" => RunFetchedUrls \cap runExcluded = {}
  /\ \A k \in 1..Len(runPages) : runPages[k].url \notin runExcluded
  /\ RunListedUrls \cap runExcluded = {}
  /\ runPc = "done" => RunListedUrls = { runPages[k].url : k \in 1..Len(runPages) }

\* C28: a sitemap listed an excluded URL, the other URL was fetched and is
\* the only page of the document.
C28_ListedWitness ==
  /\ runPc = "done"
  /\ runMode = "plain"
  /\ runExcluded # {}
  /\ \E i \in 1..Len(smResult) : smResult[i].url \in runExcluded
  /\ RunListedUrls = {<<"https://example.com", "/", "b">>}

\* C28: Firecrawl crawled and mapped an excluded page, which was dropped
\* afterwards and left the document one page short of the limit.
C28_FirecrawlWitness ==
  /\ runPc = "done"
  /\ runMode = "firecrawl"
  /\ runLimit = 2
  /\ runFetched = << <<"https://example.com", "/", "a">>,
                     <<"https://example.com", "/", "b">> >>
  /\ <<"https://example.com", "/", "a">> \in runExcluded
  /\ RunListedUrls = {<<"https://example.com", "/", "b">>}

\* No element of the list s occurs twice.
NoDuplicates(s) == \A i, j \in 1..Len(s) : i # j => s[i] # s[j]

\* C29: the URL list discoverUrls hands to the page fetchers holds no URL
\* twice and at most limit URLs, whatever the sitemap or the crawl returned,
\* so no page is fetched or listed twice.
C29_DeduplicatedWithinLimit ==
  /\ Len(runUrls) <= runLimit
  /\ NoDuplicates(runUrls)
  /\ runMode # "firecrawl" => NoDuplicates(runFetched)

\* C29, the part that holds: the list is never longer than the limit, and a
\* list that comes from the crawl holds no URL twice.
C29_WithinLimit ==
  /\ Len(runUrls) <= runLimit
  /\ Len(runFetched) <= runLimit
  /\ CrawlCalled => NoDuplicates(runUrls)

\* C29: two sitemaps of an index list the same page, which is handed to the
\* fetcher twice and listed twice in the document.
C29_DuplicateWitness ==
  /\ runPc = "done"
  /\ runMode = "plain"
  /\ runFetched = << <<"https://example.com", "/", "c">>,
                     <<"https://example.com", "/", "c">> >>
  /\ Len(SelectSeq(runDoc, LAMBDA l : l.kind = "page")) = 2

\* C29: a crawl that found two pages handed both to the fetcher.
C29_CrawlWitness ==
  /\ runPc = "pages"
  /\ CrawlCalled
  /\ Len(runUrls) = 2
  /\ runFetched = runUrls

\* ------------------- cli: processInBatches; playwright.ts: fetchPagesWithBrowser

\* Longest URL list handed to a fetcher, and the largest concurrency.
MaxFetchUrls == 4
MaxConcurrency == 2

\* The k-th URL of the list.
FetchUrl(k) == <<"https://example.com", "/", ToString(k)>>

\* The title a config override sets.
OverrideTitle == <<"Custom">>

\* The value null, and a page record, as array elements.
Null == [isNull |-> TRUE, data |-> Page(Empty, Empty, Empty, Empty)]
NonNull(data) == [isNull |-> FALSE, data |-> data]


\* config.overrides?.[url]: the first URL of the list has one when a title is configured.
HasOverride(url) == ftOverride # Empty /\ ftUrls # <<>> /\ url = ftUrls[1]

\* Object.assign(data, override) / { ...p, ...override }.
WithOverride(data) ==
  IF HasOverride(data.url) THEN [data EXCEPT !.title = ftOverride] ELSE data

\* The values parseInt(opts.concurrency, 10) can hand on: the positive ones,
\* zero and a negative one.
Concurrencies == {0 - 1, 0} \cup (1..MaxConcurrency)

\* A call of processInBatches(urls, concurrency, fn) by run, or of
\* fetchPagesWithBrowser(urls, concurrency, onProgress), with one of the
\* given concurrency values.
FtStart(concurrencies) ==
  /\ ftMode \in {"http", "browser"}
  /\ ftUrls \in { [k \in 1..n |-> FetchUrl(k)] : n \in 0..MaxFetchUrls }
  /\ ftConcurrency \in concurrencies
  /\ ftOverride \in {Empty, OverrideTitle}
  /\ ftPc = (IF ftMode = "browser" THEN "launch" ELSE "loop")
  /\ ftI = 0
  /\ ftTask = [k \in 1..Len(ftUrls) |-> "idle"]
  /\ ftValue = [k \in 1..Len(ftUrls) |-> Null]
  /\ ftResults = <<>>
  /\ ftTab = [k \in 1..Len(ftUrls) |-> "none"]
  /\ ftBrowser = "none"
  /\ ftBrowserCloses = 0
  /\ ftPending = "none"
  /\ ftFailed = [k \in 1..Len(ftUrls) |-> "none"]

\* A call with a positive concurrency.
FtInit == FtStart(1..MaxConcurrency)

\* A call with any concurrency the command line can pass.
FtInitAny == FtStart(Concurrencies)

\* The arguments, which no step changes.
ftInputs == <<ftMode, ftUrls, ftConcurrency, ftOverride>>

\* A slice one URL longer than the concurrency.
BatchTooWide(i) == { k \in 1..Len(ftUrls) : i < k /\ k <= i + ftConcurrency + 1 }

\* An argument of urls.slice as an offset into the list: a negative one
\* counts from the end, and the result is clamped to 0..length.
SliceIndex(x) ==
  IF x < 0 THEN (IF Len(ftUrls) + x < 0 THEN 0 ELSE Len(ftUrls) + x)
  ELSE IF x > Len(ftUrls) THEN Len(ftUrls) ELSE x

\* The positions of urls.slice(i, i + concurrency).
Batch(i) ==
  { k \in 1..Len(ftUrls) : SliceIndex(i) < k /\ k <= SliceIndex(i + ftConcurrency) }

\* i += concurrency.  An index below minus the length of the list is kept at
\* that value: the loop goes on and every slice is empty from there on.
NextIndex(i) ==
  IF i + ftConcurrency < 0 - Len(ftUrls) THEN 0 - Len(ftUrls) ELSE i + ftConcurrency

\* The first await of a task: fetch in fetchPage, browser.newPage() in the
\* browser mapper.
FirstStage == IF ftMode = "browser" THEN "newPage" ELSE "fetch"

\* import('playwright') or chromium.launch rejects: the call throws before
\* there is a browser.
FtLaunchFail ==
  /\ ftPc = "launch"
  /\ ftPc' = "threw"
  /\ ftPending' = "launch"
  /\ UNCHANGED <<ftInputs, ftI, ftTask, ftValue, ftResults, ftTab, ftBrowser,
                 ftBrowserCloses, ftFailed, ftOthers>>

\* The browser is launched; results = new Array(urls.length).fill(null).
FtLaunchOk ==
  /\ ftPc = "launch"
  /\ ftBrowser' = "open"
  /\ ftResults' = [k \in 1..Len(ftUrls) |-> Null]
  /\ ftPc' = "loop"
  /\ UNCHANGED <<ftInputs, ftI, ftTask, ftValue, ftTab, ftBrowserCloses, ftPending,
                 ftFailed, ftOthers>>

\* The loop body up to the await: batch.map(fn) starts one task per URL of the
\* batch, each running to its first await.
FtStartBatch ==
  /\ ftPc = "loop"
  /\ ftI < Len(ftUrls)
  /\ ftTask' = [k \in 1..Len(ftUrls) |-> IF k \in Batch(ftI) THEN FirstStage ELSE ftTask[k]]
  /\ ftPc' = "batch"
  /\ UNCHANGED <<ftInputs, ftI, ftValue, ftResults, ftTab, ftBrowser, ftBrowserCloses,
                 ftPending, ftFailed, ftOthers>>

\* Task k moves to stage st.
TaskAt(k, st) == ftTask' = [ftTask EXCEPT ![k] = st]

\* Stage st failed for URL k.
FailedAt(k, st) == ftFailed' = [ftFailed EXCEPT ![k] = st]

\* The task of URL k rejects at stage st.  While the call awaits the batch,
\* Promise.all rejects with it and the exception leaves the for loop for the
\* outer finally block, whatever the other tasks of the batch are doing; a
\* task that rejects after that has nobody waiting for it.
Reject(k, st) ==
  /\ TaskAt(k, "rejected")
  /\ FailedAt(k, st)
  /\ IF ftPc = "batch"
     THEN ftPc' = "closing" /\ ftPending' = st
     ELSE UNCHANGED <<ftPc, ftPending>>

\* fn of run, first await: fetchPage's fetch.  A rejected fetch and an error
\* status both throw inside fn's try; its catch returns null.
FtTaskFetch(k) ==
  /\ ftTask[k] = "fetch"
  /\ \E ok \in BOOLEAN :
       IF ok
       THEN TaskAt(k, "text") /\ UNCHANGED <<ftValue, ftFailed>>
       ELSE TaskAt(k, "fulfilled") /\ FailedAt(k, "fetch")
            /\ ftValue' = [ftValue EXCEPT ![k] = Null]
  /\ UNCHANGED <<ftInputs, ftPc, ftI, ftResults, ftTab, ftBrowser, ftBrowserCloses,
                 ftPending, ftOthers>>

\* fn of run, second await: res.text(), then extractPageData and the override.
FtTaskText(k) ==
  /\ ftTask[k] = "text"
  /\ TaskAt(k, "fulfilled")
  /\ \E ok \in BOOLEAN :
       IF ok
       THEN /\ ftValue' = [ftValue EXCEPT
                             ![k] = NonNull(WithOverride(ExtractPageData(ftUrls[k])))]
            /\ UNCHANGED ftFailed
       ELSE /\ ftValue' = [ftValue EXCEPT ![k] = Null]
            /\ FailedAt(k, "text")
  /\ UNCHANGED <<ftInputs, ftPc, ftI, ftResults, ftTab, ftBrowser, ftBrowserCloses,
                 ftPending, ftOthers>>

\* The browser mapper, first await: browser.newPage().  It stands before the
\* try, so its rejection rejects the task.
FtTaskNewPage(k) ==
  /\ ftTask[k] = "newPage"
  /\ \E ok \in BOOLEAN :
       IF ok
       THEN /\ TaskAt(k, "goto")
            /\ ftTab' = [ftTab EXCEPT ![k] = "open"]
            /\ UNCHANGED <<ftFailed, ftPc, ftPending>>
       ELSE /\ Reject(k, "newPage")
            /\ UNCHANGED ftTab
  /\ UNCHANGED <<ftInputs, ftI, ftValue, ftResults, ftBrowser, ftBrowserCloses, ftOthers>>

\* page.goto(url): a rejection is caught, the finally block runs next.
FtTaskGoto(k) ==
  /\ ftTask[k] = "goto"
  /\ \E ok \in BOOLEAN :
       IF ok
       THEN TaskAt(k, "content") /\ UNCHANGED ftFailed
       ELSE TaskAt(k, "close") /\ FailedAt(k, "goto")
  /\ UNCHANGED <<ftInputs, ftPc, ftI, ftValue, ftResults, ftTab, ftBrowser,
                 ftBrowserCloses, ftPending, ftOthers>>

\* page.content(), then results[i + j] = extractPageData(url, html); a
\* rejection is caught; the finally block runs next.
FtTaskContent(k) ==
  /\ ftTask[k] = "content"
  /\ TaskAt(k, "close")
  /\ \E ok \in BOOLEAN :
       IF ok
       THEN /\ ftResults' = [ftResults EXCEPT ![k] = NonNull(ExtractPageData(ftUrls[k]))]
            /\ UNCHANGED ftFailed
       ELSE /\ FailedAt(k, "content")
            /\ UNCHANGED ftResults
  /\ UNCHANGED <<ftInputs, ftPc, ftI, ftValue, ftTab, ftBrowser, ftBrowserCloses,
                 ftPending, ftOthers>>

\* finally { await page.close() }: a rejection leaves the finally block and
\* rejects the task.
FtTaskClose(k) ==
  /\ ftTask[k] = "close"
  /\ \E ok \in BOOLEAN :
       IF ok
       THEN /\ TaskAt(k, "fulfilled")
            /\ ftTab' = [ftTab EXCEPT ![k] = "closed"]
            /\ UNCHANGED <<ftFailed, ftPc, ftPending>>
       ELSE /\ Reject(k, "close")
            /\ ftTab' = [ftTab EXCEPT ![k] = "close failed"]
  /\ UNCHANGED <<ftInputs, ftI, ftValue, ftResults, ftBrowser, ftBrowserCloses, ftOthers>>

\* The values of the tasks at positions lo+1..hi, in order.
BatchResults(lo, hi) == [j \in 1..(hi - lo) |-> ftValue[lo + j]]

\* Where urls.slice(i, i + concurrency) ends: at its start when it is empty.
BatchEnd(i) ==
  IF SliceIndex(i + ftConcurrency) < SliceIndex(i) THEN SliceIndex(i)
  ELSE SliceIndex(i + ftConcurrency)

\* await Promise.all(...) resolves: every task of the batch is fulfilled.
\* processInBatches pushes the values; i += batchSize.
FtBatchDone ==
  /\ ftPc = "batch"
  /\ \A k \in Batch(ftI) : ftTask[k] = "fulfilled"
  /\ ftResults' = IF ftMode = "http"
                  THEN ftResults \o BatchResults(SliceIndex(ftI), BatchEnd(ftI))
                  ELSE ftResults
  /\ ftI' = NextIndex(ftI)
  /\ ftPc' = "loop"
  /\ UNCHANGED <<ftInputs, ftTask, ftValue, ftTab, ftBrowser, ftBrowserCloses,
                 ftPending, ftFailed, ftOthers>>

\* The for loop is over: processInBatches returns results,
\* fetchPagesWithBrowser enters its finally block.
FtLoopEnd ==
  /\ ftPc = "loop"
  /\ ftI >= Len(ftUrls)
  /\ ftPc' = IF ftMode = "browser" THEN "closing" ELSE "returned"
  /\ UNCHANGED <<ftInputs, ftI, ftTask, ftValue, ftResults, ftTab, ftBrowser,
                 ftBrowserCloses, ftPending, ftFailed, ftOthers>>

\* finally { await browser.close() }, then return results, or the pending
\* exception, or the rejection of close itself.
FtBrowserClose ==
  /\ ftPc = "closing"
  /\ ftBrowser' = "closed"
  /\ ftBrowserCloses' = ftBrowserCloses + 1
  /\ \E ok \in BOOLEAN :
       IF ok /\ ftPending = "none"
       THEN ftPc' = "returned" /\ UNCHANGED ftPending
       ELSE /\ ftPc' = "threw"
            /\ ftPending' = IF ok THEN ftPending ELSE "browser.close"
  /\ UNCHANGED <<ftInputs, ftI, ftTask, ftValue, ftResults, ftTab, ftFailed, ftOthers>>

FtNext ==
  \/ FtLaunchFail
  \/ FtLaunchOk
  \/ FtStartBatch
  \/ \E k \in 1..Len(ftUrls) : FtTaskFetch(k)
  \/ \E k \in 1..Len(ftUrls) : FtTaskText(k)
  \/ \E k \in 1..Len(ftUrls) : FtTaskNewPage(k)
  \/ \E k \in 1..Len(ftUrls) : FtTaskGoto(k)
  \/ \E k \in 1..Len(ftUrls) : FtTaskContent(k)
  \/ \E k \in 1..Len(ftUrls) : FtTaskClose(k)
  \/ FtBatchDone
  \/ FtLoopEnd
  \/ FtBrowserClose

InitFetch == FtInit /\ CrawlIdle /\ SmIdle /\ FmtIdle /\ DsIdle /\ RunIdle /\ AiIdle /\ FullIdle /\ CtIdle /\ OutIdle /\ ExIdle /\ PoIdle /\ OvIdle

SpecFetch == InitFetch /\ [][FtNext]_vars

InitBatches == FtInitAny /\ CrawlIdle /\ SmIdle /\ FmtIdle /\ DsIdle /\ RunIdle /\ AiIdle /\ FullIdle /\ CtIdle /\ OutIdle /\ ExIdle /\ PoIdle /\ OvIdle

\* Every await of a task is bounded by a timeout and the steps between them
\* are synchronous, so a call that can take a step takes one.
FairSpecBatches == InitBatches /\ [][FtNext]_vars /\ WF_ftVars(FtNext)

\* A fetch is outstanding from its start until it settles.
Settled(k) == ftTask[k] \in {"fulfilled", "rejected"}
Outstanding(k) == ftTask[k] # "idle" /\ ~Settled(k)

\* The number of the batch URL k belongs to.
BatchOf(k) == (k - 1) \div ftConcurrency

\* C16: at no time are more than concurrency fetches outstanding, and a fetch
\* of a later batch has started only if every fetch of the earlier batches
\* has settled, in the plain loop and in the browser loop.
C16_BoundedBatches ==
  /\ Cardinality({ k \in 1..Len(ftUrls) : Outstanding(k) }) <= ftConcurrency
  /\ \A k, j \in 1..Len(ftUrls) :
       (BatchOf(k) < BatchOf(j) /\ ftTask[j] # "idle") => Settled(k)

\* C16 witness: with concurrency 2 the second batch has two fetches
\* outstanding, after a first batch in which a fetch failed.
C16_Witness ==
  /\ ftConcurrency = 2
  /\ Len(ftUrls) = 4
  /\ Outstanding(3) /\ Outstanding(4)
  /\ Settled(1) /\ Settled(2)
  /\ ftFailed[1] # "none"

\* run: validPages, the records left after pages.filter(p => p !== null); the
\* browser branch applies the overrides here.
NotNull(r) == ~r.isNull
ValidPages ==
  LET kept == SelectSeq(ftResults, NotNull)
  IN  [j \in 1..Len(kept) |->
         IF ftMode = "browser" THEN WithOverride(kept[j].data) ELSE kept[j].data]

\* The call has ended, and neither the launch nor browser.close() failed.
FetchEnded == ftPc \in {"returned", "threw"} /\ ftPending \notin {"launch", "browser.close"}

\* The records of the URLs no stage failed for, in the order of the list.
IsSucceeded(k) == ftFailed[k] = "none"
RECURSIVE SucceededRecords(_)
SucceededRecords(k) ==
  IF k > Len(ftUrls) THEN <<>>
  ELSE (IF IsSucceeded(k) THEN <<WithOverride(ExtractPageData(ftUrls[k]))>> ELSE <<>>)
       \o SucceededRecords(k + 1)

\* C17: a failure while processing one URL costs the record of that URL
\* only: the call returns, every URL of the list was processed, and the
\* records are those of the URLs that succeeded, in the order of the list.
C17_FailureIsPerUrl ==
  FetchEnded =>
    /\ ftPc = "returned"
    /\ \A k \in 1..Len(ftUrls) : ftTask[k] # "idle"
    /\ ValidPages = SucceededRecords(1)

\* C17 for the failures the code catches: fetching and reading the body in
\* the plain path, navigating and reading the markup in the browser path.
C17_CaughtFailuresArePerUrl ==
  (FetchEnded /\ \A k \in 1..Len(ftUrls) : ftFailed[k] \notin {"newPage", "close"}) =>
    /\ ftPc = "returned"
    /\ \A k \in 1..Len(ftUrls) : Settled(k)
    /\ ValidPages = SucceededRecords(1)

\* The case of C17_CaughtFailuresArePerUrl: a call returned after a failure.
C17_CaughtWitness ==
  /\ ftPc = "returned"
  /\ Len(ftUrls) >= 2
  /\ ftFailed[1] \in {"fetch", "text", "goto", "content"}
  /\ Len(ValidPages) = Len(ftUrls) - 1

\* The browser was launched; the call is over; no batch is in progress.
Launched == ftBrowser # "none"
CallOver == ftPc \in {"returned", "threw"}
BetweenBatches == ftPc \in {"loop", "closing", "returned", "threw"}

\* browser.close() is called once on every way out of a launched call.
BrowserClosedOnce ==
  /\ ftBrowserCloses <= 1
  /\ (Launched /\ CallOver) => (ftBrowserCloses = 1 /\ ftBrowser = "closed")
  /\ ~Launched => ftBrowserCloses = 0

\* close() was called on every tab that was opened.
TabsClosed == \A k \in 1..Len(ftUrls) : ftTab[k] # "open"

\* C18: after a successful launch the browser is closed exactly once on
\* every exit path, and every tab that was opened is closed before the batch
\* that opened it completes.
C18_BrowserAndTabsClosed ==
  /\ BrowserClosedOnce
  /\ (ftMode = "browser" /\ BetweenBatches) => TabsClosed

\* C18, first half alone: the browser is closed exactly once.
C18_BrowserClosedOnce == BrowserClosedOnce

\* A launched call threw because a task rejected, and the browser was closed once.
C18_ClosedOnceWitness ==
  /\ ftPc = "threw"
  /\ ftPending \in {"newPage", "close"}
  /\ ftBrowserCloses = 1

\* Every URL of the list was handed to a task, and the task has settled.
EachUrlProcessed == \A k \in 1..Len(ftUrls) : ftTask[k] = "fulfilled"

\* C40: the batch loops of processInBatches and fetchPagesWithBrowser end for
\* every URL list and every integer concurrency, and a call that returns has
\* processed each URL.
C40_BatchLoopsEnd ==
  /\ <>CallOver
  /\ [](ftPc = "returned" => EachUrlProcessed)

\* C40 for a positive concurrency: the call ends, and when it returns each
\* URL was processed.
C40_EndsWhenPositive ==
  /\ ftConcurrency >= 1 => <>CallOver
  /\ []((ftConcurrency >= 1 /\ ftPc = "returned") => EachUrlProcessed)

\* C40: with a concurrency below 1 and a list that is not empty the loop
\* variable never exceeds 0 and the call never returns; it ends only when the
\* browser fails.
C40_NeverReturnsBelowOne ==
  (ftConcurrency < 1 /\ ftUrls # <<>> /\ ftPc # "idle") =>
    /\ ftI <= 0
    /\ ftPc # "returned"
    /\ ftPc \in {"closing", "threw"} => ftMode = "browser"

\* C40: with concurrency 0 the loop awaits an empty batch of a list of two
\* URLs, none of which was handed to a task.
C40_ZeroWitness ==
  /\ ftConcurrency = 0
  /\ Len(ftUrls) = 2
  /\ ftPc = "batch"
  /\ ftI = 0
  /\ \A k \in 1..Len(ftUrls) : ftTask[k] = "idle"

\* C40: with concurrency -1 the first batch held every URL but the last, and
\* the loop goes on with a negative index and empty batches.
C40_NegativeWitness ==
  /\ ftConcurrency < 0
  /\ Len(ftUrls) = 3
  /\ ftPc = "batch"
  /\ ftI < 0
  /\ ftTask[1] = "fulfilled"
  /\ ftTask[2] = "fulfilled"
  /\ ftTask[3] = "idle"

\* C40: with concurrency 2 a list of three URLs was processed in two batches
\* and the call returned.
C40_PositiveWitness ==
  /\ ftConcurrency = 2
  /\ Len(ftUrls) = 3
  /\ ftPc = "returned"
  /\ EachUrlProcessed

\* ------------------------------------------------- ai.ts: generateDescriptions

\* Longest page list handed to generateDescriptions.
MaxAiPages == 2

\* Error statuses of a provider.
StatusBadRequest == 400
StatusUnauthorized == 401

\* The pages: one with a description, one without, one more URL.
AiPageRecords ==
  { Page(<<"https://example.com", "/">>, <<"Home">>, <<"Original", " ", "description.">>,
         <<"Welcome">>),
    Page(<<"https://example.com", "/", "about">>, <<"About">>, Empty, <<"About", " ", "us">>),
    Page(<<"https://example.com", "/", "docs">>, <<"Docs">>, <<"Docs", " ", "description.">>,
         Empty) }

\* The texts a provider answers with: a sentence, a padded one, blanks, nothing.
AiTexts ==
  { <<"AI", " ", "generated", " ", "description.">>,
    <<" ", "Padded.", " ">>,
    <<" ", " ">>,
    Empty }

\* What the provider does with one request: the request fails, the response
\* has an error status, its body lacks the list of choices, its first choice
\* has no text, or the first choice has a text.
AiReplies ==
  { [kind |-> "network", status |-> 0, text |-> Empty] }
    \cup { [kind |-> "http", status |-> st, text |-> Empty] :
             st \in {StatusBadRequest, StatusUnauthorized} }
    \cup { [kind |-> "malformed", status |-> StatusOk, text |-> Empty],
           [kind |-> "no text", status |-> StatusOk, text |-> Empty] }
    \cup { [kind |-> "text", status |-> StatusOk, text |-> t] : t \in AiTexts }

\* callProvider (callOpenAICompat, callGemini, callClaude): throws on a failed
\* request, on !res.ok and on a body without choices; otherwise the trimmed
\* text of the first choice, '' when there is none.
callProvider(reply) ==
  IF reply.kind = "network" THEN [threw |-> TRUE, text |-> Empty]
  ELSE IF reply.status # StatusOk THEN [threw |-> TRUE, text |-> Empty]
  ELSE IF reply.kind = "malformed" THEN [threw |-> TRUE, text |-> Empty]
  ELSE IF reply.kind = "no text" THEN [threw |-> FALSE, text |-> Empty]
  ELSE [threw |-> FALSE, text |-> Trim(reply.text)]

\* The catch block dropping the page.
DropPage(page) == <<>>

\* catch { results.push(page) }: what the catch block adds to results.
KeepPage(page) == <<page>>

\* An enrichment that only fills in a description that is missing.
DescribedUnlessPresent(page, desc) ==
  [page EXCEPT !.description = OrElse(page.description, desc)]

\* { ...page, description: desc || page.description }
Described(page, desc) == [page EXCEPT !.description = OrElse(desc, page.description)]

\* A call generateDescriptions(pages, provider, apiKey).
AiInit ==
  /\ aiPages \in UNION { [1..n -> AiPageRecords] : n \in 0..MaxAiPages }
  /\ aiPc = "loop"
  /\ aiIdx = 0
  /\ aiResults = <<>>
  /\ aiReplies = <<>>

\* One turn of the for loop: the provider is called for the next page and
\* one element is pushed, in the try block or in the catch block.
AiPage ==
  /\ aiPc = "loop"
  /\ aiIdx < Len(aiPages)
  /\ \E reply \in AiReplies :
       LET page == aiPages[aiIdx + 1]
           r    == callProvider(reply)
       IN  /\ aiResults' = aiResults \o
                             (IF r.threw THEN KeepPage(page) ELSE <<Described(page, r.text)>>)
           /\ aiReplies' = Append(aiReplies, reply)
  /\ aiIdx' = aiIdx + 1
  /\ UNCHANGED <<aiPages, aiPc, aiOthers>>

\* return results.
AiReturn ==
  /\ aiPc = "loop"
  /\ aiIdx = Len(aiPages)
  /\ aiPc' = "returned"
  /\ UNCHANGED <<aiPages, aiIdx, aiResults, aiReplies, aiOthers>>

AiNext == AiPage \/ AiReturn

InitAi == AiInit /\ CrawlIdle /\ SmIdle /\ FmtIdle /\ DsIdle /\ RunIdle /\ FtIdle /\ FullIdle /\ CtIdle /\ OutIdle /\ ExIdle /\ PoIdle /\ OvIdle

SpecAi == InitAi /\ [][AiNext]_vars

\* The provider call failed: network error or non-success response.
ProviderFailed(reply) == reply.kind = "network" \/ reply.status # StatusOk

\* The provider call returned an empty string: no text, or only blanks.
RECURSIVE AllBlank(_)
AllBlank(t) == t = Empty \/ (Head(t) = " " /\ AllBlank(Tail(t)))
ProviderEmpty(reply) ==
  reply.status = StatusOk /\ reply.kind \in {"no text", "text"} /\ AllBlank(reply.text)

\* C19: the result has the length and order of the input; element i is page
\* i in every field but the description; and where the provider failed or
\* returned an empty string, element i keeps the original description.
C19_SameLengthOrderAndFallback ==
  /\ Len(aiResults) = aiIdx
  /\ aiPc = "returned" => Len(aiResults) = Len(aiPages)
  /\ \A i \in 1..Len(aiResults) :
       /\ [aiResults[i] EXCEPT !.description = aiPages[i].description] = aiPages[i]
       /\ (ProviderFailed(aiReplies[i]) \/ ProviderEmpty(aiReplies[i])) =>
            aiResults[i] = aiPages[i]

\* C19 witness: a call returned two elements; the provider failed for the
\* first page, which is unchanged, and described the second.
C19_Witness ==
  /\ aiPc = "returned"
  /\ Len(aiPages) = 2
  /\ ProviderFailed(aiReplies[1])
  /\ aiResults[1] = aiPages[1]
  /\ aiReplies[2].kind = "text"
  /\ aiResults[2].description # aiPages[2].description

\* ---------------------------------------------- formatter.ts: formatLlmFullTxt

\* Longest page list handed to formatLlmFullTxt.
MaxFullPages == 3

\* The pages: home with a content and the site name in its title, a page
\* without content, a docs page with a content and no title, and a page
\* whose content is one blank.
FullPageRecords ==
  { WithContent(Page(<<"https://example.com", "/">>,
                     <<"Home", " ", "|", " ", "Acme">>, <<"Welcome">>, Empty),
                <<"Home", " ", "page", " ", "content.">>),
    Page(<<"https://example.com", "/", "about">>, <<"About">>, <<"About", " ", "us">>, Empty),
    WithContent(Page(<<"https://example.com", "/", "docs">>, Empty, Empty, <<"Docs">>),
                <<"Docs", " ", "content", " ", "here.">>),
    WithContent(Page(<<"https://example.com", "/", "blog">>, <<"Blog">>, Empty, Empty),
                <<" ">>) }

\* The description and the date of the calls.
FullDescription == <<"A", " ", "great", " ", "site">>
FullGeneratedAt == <<"2026-01-15", "T", "00:00:00.000Z">>

\* '---'.
Rule == Line("rule", Empty, Empty, Empty)

\* A block for every page.
AnyContent(page) == TRUE

\* if (!page.content) continue: the page gets a block.
HasContent(page) == page.content # Empty

\* The elements pushed for one page: `## ${title}`, '', `URL: ${page.url}`,
\* '', page.content, '', '---', ''.
ContentBlock(page, siteName) ==
  << Heading(cleanTitle(getPageTitle(page), siteName)), Blank,
     Line("url", Empty, page.url, Empty), Blank,
     Line("content", page.content, Empty, Empty), Blank,
     Rule, Blank >>

\* The blocks of the pages ps, in order.
RECURSIVE ContentBlocks(_, _)
ContentBlocks(ps, siteName) ==
  IF ps = <<>> THEN <<>>
  ELSE (IF HasContent(Head(ps)) THEN ContentBlock(Head(ps), siteName) ELSE <<>>)
       \o ContentBlocks(Tail(ps), siteName)

\* formatLlmFullTxt(opts): the sections array before the join, with the text
\* of formatLlmTxt(opts) as its lines (joining with '\n' is the same for both).
formatLlmFullTxt(siteName, siteDescription, pages, iso) ==
  formatLlmTxt(siteName, siteDescription, pages, iso)
    \o <<Rule, Blank>>
    \o ContentBlocks(pages, siteName)

\* The options of a call.
FullInit ==
  /\ fullSiteName \in SiteNames
  /\ fullPages \in SeqsUpTo(FullPageRecords, MaxFullPages)
  /\ fullPc = "init"
  /\ fullLines = <<>>

\* formatLlmFullTxt(opts) runs to its return.
FormatLlmFullTxt ==
  /\ fullPc = "init"
  /\ fullLines' = formatLlmFullTxt(fullSiteName, FullDescription, fullPages, FullGeneratedAt)
  /\ fullPc' = "done"
  /\ UNCHANGED <<fullSiteName, fullPages, fullOthers>>

FullNext == FormatLlmFullTxt

InitFull == FullInit /\ CrawlIdle /\ SmIdle /\ FmtIdle /\ DsIdle /\ RunIdle /\ FtIdle /\ AiIdle /\ CtIdle /\ OutIdle /\ ExIdle /\ PoIdle /\ OvIdle

SpecFull == InitFull /\ [][FullNext]_vars

\* The summary of the same options, and what follows it in the output.
FullSummary == formatLlmTxt(fullSiteName, FullDescription, fullPages, FullGeneratedAt)
FullRest == SubSeq(fullLines, Len(FullSummary) + 1, Len(fullLines))

\* The url and content of the blocks of a text, in order: every "url" line
\* with the "content" line two lines below it.
BlocksOf(lines) ==
  LET at == SelectSeq([i \in 1..Len(lines) |-> i], LAMBDA i : lines[i].kind = "url")
  IN  [k \in 1..Len(at) |->
         [url |-> lines[at[k]].url,
          content |-> IF at[k] + 2 <= Len(lines) /\ lines[at[k] + 2].kind = "content"
                      THEN lines[at[k] + 2].text ELSE Empty]]

\* The url and content of the input pages with a non-empty content, in order.
PagesWithContent ==
  LET ps == SelectSeq(fullPages, LAMBDA p : p.content # Empty)
  IN  [k \in 1..Len(ps) |-> [url |-> ps[k].url, content |-> ps[k].content]]

\* C25: the output is the summary of the same options, a separator, and one
\* content block, in input order, for exactly the pages whose content is
\* non-empty; a page without content has no block and keeps its line in the
\* summary part.
C25_FullDocument ==
  fullPc = "done" =>
    /\ Len(fullLines) >= Len(FullSummary) + 2
    /\ SubSeq(fullLines, 1, Len(FullSummary)) = FullSummary
    /\ FullRest[1] = Rule
    /\ BlocksOf(FullRest) = PagesWithContent
    /\ Len(FullRest) = 2 + 8 * Len(PagesWithContent)
    /\ Len(PageLinesOf(SubSeq(fullLines, 1, Len(FullSummary)))) = Len(fullPages)
    /\ \A k \in 1..Len(fullPages) :
         \E i \in 1..Len(FullSummary) :
           fullLines[i].kind = "page" /\ fullLines[i].url = fullPages[k].url

\* C25 witness: a page without content between two pages with content; two
\* blocks, three page lines.
C25_Witness ==
  /\ fullPc = "done"
  /\ Len(fullPages) = 3
  /\ fullPages[1].content # Empty
  /\ fullPages[2].content = Empty
  /\ fullPages[3].content # Empty
  /\ fullPages[1] # fullPages[3]
  /\ Len(BlocksOf(FullRest)) = 2
  /\ Len(PageLinesOf(fullLines)) = 3

\* ---------------------------------------------------- formatter.ts: cleanTitle

\* How many tails a title is built from at most.
MaxTails == 2

\* What a title starts with: nothing, a title, a title after a blank.
TitleBases == { Empty, <<"About", " ", "Us">>, <<" ", "Docs">> }

\* What follows: a separator and the site name in two letter cases, spaced,
\* unspaced, or followed by a blank; the site name without a separator;
\* another name after a separator; a separator alone.
TitleTails ==
  { <<" ", sep, " ", name>> : sep \in TitleSeparators, name \in {"Acme", "ACME"} }
    \cup { <<"|", "Acme">>,
           <<" ", "-", " ", "Acme", " ">>,
           <<" ", "Acme">>,
           <<" ", "|", " ", "Other">>,
           <<" ", "|">> }

\* The concatenation of a sequence of texts.
RECURSIVE Flatten(_)
Flatten(ts) == IF ts = <<>> THEN <<>> ELSE Head(ts) \o Flatten(Tail(ts))

\* The titles of the calls.
Titles == { b \o Flatten(ts) : b \in TitleBases, ts \in SeqsUpTo(TitleTails, MaxTails) }

\* A call cleanTitle(title, siteName).
CtInit ==
  /\ ctTitle \in Titles
  /\ ctSiteName \in SiteNames
  /\ ctPc = "init"
  /\ ctResult = Empty

\* The call returns.
CleanTitle ==
  /\ ctPc = "init"
  /\ ctResult' = cleanTitle(ctTitle, ctSiteName)
  /\ ctPc' = "done"
  /\ UNCHANGED <<ctTitle, ctSiteName, ctOthers>>

CtNext == CleanTitle

InitClean == CtInit /\ CrawlIdle /\ SmIdle /\ FmtIdle /\ DsIdle /\ RunIdle /\ FtIdle /\ AiIdle /\ FullIdle /\ OutIdle /\ ExIdle /\ PoIdle /\ OvIdle

SpecClean == InitClean /\ [][CtNext]_vars

\* The positions of the separators of title that only blanks and the site
\* name, in any letter case, follow up to the end.
SuffixStarts(title, siteName) ==
  { i \in 1..Len(title) :
      /\ title[i] \in TitleSeparators
      /\ ToLowerSeq(Trim(SubSeq(title, i + 1, Len(title)))) = ToLowerSeq(siteName) }

\* C26: cleanTitle returns the title as it is when an argument is empty;
\* otherwise it removes one trailing separator-and-site-name suffix, if
\* there is one, and trims what remains, so that of two such suffixes the
\* first is kept.
C26_OneSuffix ==
  ctPc = "done" =>
    IF ctTitle = Empty \/ ctSiteName = Empty THEN ctResult = ctTitle
    ELSE IF SuffixStarts(ctTitle, ctSiteName) = {} THEN ctResult = Trim(ctTitle)
    ELSE LET i    == CHOOSE i \in SuffixStarts(ctTitle, ctSiteName) : TRUE
             rest == SubSeq(ctTitle, 1, i - 1)
         IN  /\ Cardinality(SuffixStarts(ctTitle, ctSiteName)) = 1
             /\ ctResult = Trim(rest)
             /\ SuffixStarts(rest, ctSiteName) # {} => SuffixStarts(ctResult, ctSiteName) # {}

\* C26 witness: a title that ends in two suffixes, returned with the first.
C26_Witness ==
  /\ ctPc = "done"
  /\ ctSiteName = <<"Acme">>
  /\ ctTitle = <<"About", " ", "Us", " ", "|", " ", "Acme", " ", "-", " ", "ACME">>
  /\ ctResult = <<"About", " ", "Us", " ", "|", " ", "Acme">>

\* A title returned unchanged because the site name is empty.
C26_WitnessEmptyName ==
  /\ ctPc = "done"
  /\ ctSiteName = Empty
  /\ SuffixStarts(ctTitle, <<"Acme">>) # {}
  /\ ctResult = ctTitle

\* ------------------------------------------ extractor.ts: extractPageData

\* Most elements in the body of a page.
MaxElements == 3

\* .slice(0, 3000): the cap on the content, in tokens here.
MaxContent == 3000

\* An element of the body: what it is and the text inside it.
Element(kind, text) == [kind |-> kind, text |-> text]

\* The elements a body is made of: <main>, <article>, <div role="main">,
\* <div class="content">, a plain <div>, and a <nav>.
Elements ==
  { Element("main", <<"Main", " ", "\n", " ", "content">>),
    Element("article", <<"Article", " ", "content">>),
    Element("role=main", <<"Role", " ", "main", " ", "content">>),
    Element(".content", <<"Class", " ", "content">>),
    Element("div", <<"Body", " ", "fallback">>),
    Element("nav", <<"Menu">>) }

\* The pages extractPageData is given.
Htmls == { [title |-> <<" ", "T", " ">>, body |-> b] : b \in SeqsUpTo(Elements, MaxElements) }

\* The kinds removed before anything is read: script, style, noscript, nav,
\* footer, header, aside and the three roles.
RemovedKinds == {"script", "style", "noscript", "nav", "footer", "header", "aside"}

\* The kinds the content selector names, in the order it names them.
ContentKinds == <<"main", "article", "role=main", ".content", "#content", ".main",
                  "#main", ".post", ".article">>

\* $(...).remove(): the body without the removed elements.
Remaining(body) == SelectSeq(body, LAMBDA el : el.kind \notin RemovedKinds)

\* $('main, article, ...'): the elements that match any of the selectors, in
\* document order.
MainEl(body) ==
  SelectSeq(body, LAMBDA el : \E k \in 1..Len(ContentKinds) : el.kind = ContentKinds[k])

\* .text() of a list of sibling elements: their texts, with the line breaks
\* of the markup between them.
RECURSIVE TextOf(_)
TextOf(els) ==
  IF els = <<>> THEN <<>>
  ELSE <<"\n">> \o Head(els).text \o <<"\n">> \o TextOf(Tail(els))

\* A white space token.
IsSpace(tok) == tok \in {" ", "\n", "\t"}

\* .replace(/\s+/g, ' '): every run of white space becomes one blank.
RECURSIVE CollapseSpace(_)
CollapseSpace(s) ==
  IF s = <<>> THEN <<>>
  ELSE IF IsSpace(Head(s))
  THEN IF Len(s) > 1 /\ IsSpace(s[2]) THEN CollapseSpace(Tail(s))
       ELSE <<" ">> \o CollapseSpace(Tail(s))
  ELSE <<Head(s)>> \o CollapseSpace(Tail(s))

\* textSource.text().replace(/\s+/g, ' ').trim().slice(0, 3000).
ContentOf(text) == Slice(Trim(CollapseSpace(text)), MaxContent)

\* extractPageData(url, html) for a page with a title, no description, no h1.
extractPageData(url, html) ==
  LET body       == Remaining(html.body)
      mainEl     == MainEl(body)
      textSource == IF Len(mainEl) > 0 THEN Head(mainEl).text ELSE TextOf(body)
  IN  WithContent(Page(url, Trim(html.title), Empty, Empty), ContentOf(textSource))

ExInit ==
  /\ exUrl = <<"https://example.com">>
  /\ exHtml \in Htmls
  /\ exPc = "init"
  /\ exData = Page(Empty, Empty, Empty, Empty)

\* extractPageData(url, html) runs to its return.
ExExtract ==
  /\ exPc = "init"
  /\ exData' = extractPageData(exUrl, exHtml)
  /\ exPc' = "done"
  /\ UNCHANGED <<exUrl, exHtml, exOthers>>

ExNext == ExExtract

InitExtract == ExInit /\ CrawlIdle /\ SmIdle /\ FmtIdle /\ DsIdle /\ RunIdle /\ FtIdle /\ AiIdle /\ FullIdle /\ CtIdle /\ OutIdle /\ PoIdle /\ OvIdle

SpecExtract == InitExtract /\ [][ExNext]_vars

\* The place of a kind in the order the selector names the kinds (0 when it
\* is not named).
KindRank(kind) ==
  IF \E k \in 1..Len(ContentKinds) : ContentKinds[k] = kind
  THEN CHOOSE k \in 1..Len(ContentKinds) : ContentKinds[k] = kind
  ELSE 0

\* The candidate elements of the page, in document order.
Candidates == MainEl(Remaining(exHtml.body))

\* C32: when the page holds several candidate elements, the content is the
\* text of one of the highest-priority kind present (main, then article, then
\* role=main, then the class and id conventions), wherever it stands in the
\* document; the text of the whole document is the content only when there is
\* no candidate.
C32_HighestPriorityKind ==
  exPc = "done" =>
    IF Candidates = <<>>
    THEN exData.content = ContentOf(TextOf(Remaining(exHtml.body)))
    ELSE \E i \in 1..Len(Candidates) :
           /\ \A j \in 1..Len(Candidates) :
                KindRank(Candidates[i].kind) <= KindRank(Candidates[j].kind)
           /\ exData.content = ContentOf(Candidates[i].text)

\* C32, the part that holds: the content is the text of the candidate that
\* comes first in the document, and the text of the whole document, without
\* the removed elements, when there is no candidate.
C32_FirstInDocument ==
  exPc = "done" =>
    /\ exData.content =
         (IF Candidates = <<>> THEN ContentOf(TextOf(Remaining(exHtml.body)))
          ELSE ContentOf(Candidates[1].text))
    /\ exData.url = exUrl
    /\ exData.title = <<"T">>

\* C32: an <article> stands before the <main> of the page, and the content
\* is the text of the article.
C32_OrderWitness ==
  /\ exPc = "done"
  /\ Len(exHtml.body) = 3
  /\ exHtml.body[1].kind = "nav"
  /\ exHtml.body[2].kind = "article"
  /\ exHtml.body[3].kind = "main"
  /\ exData.content = <<"Article", " ", "content">>

\* C32: a page of a <nav> and two plain elements has no candidate, and the
\* content is the text of the two elements.
C32_BodyWitness ==
  /\ exPc = "done"
  /\ Len(exHtml.body) = 3
  /\ Candidates = <<>>
  /\ exData.content = <<"Body", " ", "fallback", " ", "Body", " ", "fallback">>

\* ---------------------------------------------------- firecrawl.ts: pollCrawl

\* MAX_POLL_ATTEMPTS.
MAX_POLL_ATTEMPTS == 150

\* Most pages a crawl job reports over all its polls.
MaxJobPages == 3

\* The data array of one poll: missing or empty, or one page.
PollData == { <<>>, <<"a">>, <<"b">> }

\* What a poll can come to: the fetch rejects, the response has an error
\* status, or it is a success whose JSON carries a status and data.
PollAnswers ==
  { [net |-> "error", status |-> 0, job |-> "none", data |-> <<>>],
    [net |-> "ok", status |-> StatusError, job |-> "none", data |-> <<>>] }
    \cup { [net |-> "ok", status |-> StatusOk, job |-> j, data |-> d] :
             j \in {"scraping", "completed", "failed"}, d \in PollData }

\* What pollCrawl throws: the rejection of fetch, `Firecrawl poll error
\* ${res.status}`, 'Firecrawl crawl job failed', and the timeout.
PollNetworkError == [kind |-> "network", url |-> Empty, status |-> 0]
PollHttpError(status) == [kind |-> "poll", url |-> Empty, status |-> status]
JobFailedError == [kind |-> "job failed", url |-> Empty, status |-> 0]
PollTimeoutError == [kind |-> "timed out", url |-> Empty, status |-> 0]

\* A loop body that looks at the status before it takes the data.
PushedUnlessCompleted(allPages, r) ==
  IF r.job = "completed" THEN allPages ELSE allPages \o r.data

\* if (status.data) allPages.push(...status.data).
Pushed(allPages, r) == allPages \o r.data

\* What stops the loop body at answer r, if anything does.
PollThrows(r) ==
  IF r.net = "error" THEN PollNetworkError
  ELSE IF ~ResOk(r) THEN PollHttpError(r.status)
  ELSE IF r.job = "failed" THEN JobFailedError
  ELSE NoError

\* pollCrawl(id, apiKey, pollIntervalMs) is called.
PoInit ==
  /\ poPc = "polling"
  /\ poAttempt = 0
  /\ poAllPages = <<>>
  /\ poServed = <<>>
  /\ poResult = <<>>
  /\ poError = NoError

\* One turn of the loop: the status is fetched; an error or a failed job
\* throws, else the data is pushed and a completed job returns.
PoPoll ==
  /\ poPc = "polling"
  /\ poAttempt < MAX_POLL_ATTEMPTS
  /\ \E r \in PollAnswers :
       /\ Len(poServed) + Len(r.data) <= MaxJobPages
       /\ poServed' = poServed \o r.data
       /\ IF PollThrows(r) # NoError
          THEN /\ poPc' = "threw"
               /\ poError' = PollThrows(r)
               /\ UNCHANGED <<poAllPages, poResult>>
          ELSE /\ poAllPages' = Pushed(poAllPages, r)
               /\ poError' = poError
               /\ IF r.job = "completed"
                  THEN poPc' = "returned" /\ poResult' = Pushed(poAllPages, r)
                  ELSE poPc' = "polling" /\ poResult' = poResult
  /\ poAttempt' = poAttempt + 1
  /\ UNCHANGED poOthers

\* The loop ran out of attempts: the timeout error is thrown.
PoTimeout ==
  /\ poPc = "polling"
  /\ poAttempt >= MAX_POLL_ATTEMPTS
  /\ poPc' = "threw"
  /\ poError' = PollTimeoutError
  /\ UNCHANGED <<poAttempt, poAllPages, poServed, poResult, poOthers>>

PoNext == PoPoll \/ PoTimeout

InitPoll == PoInit /\ CrawlIdle /\ SmIdle /\ FmtIdle /\ DsIdle /\ RunIdle /\ FtIdle /\ AiIdle /\ FullIdle /\ CtIdle /\ OutIdle /\ ExIdle /\ OvIdle

SpecPoll == InitPoll /\ [][PoNext]_vars

\* Every turn of the loop awaits a fetch that is bounded by a 30 s timeout,
\* so a call that can take a step takes one.
FairSpecPoll == SpecPoll /\ WF_vars(PoNext)

\* What holds of a pollCrawl call at every moment.
PollOutcome ==
  /\ poAttempt <= MAX_POLL_ATTEMPTS
  /\ poPc \in {"polling", "returned", "threw"}
  /\ poPc = "polling" => (poResult = <<>> /\ poError = NoError /\ poAllPages = poServed)
  /\ poPc = "returned" =>
       /\ poResult = poServed
       /\ poError = NoError
       /\ poAttempt >= 1
  /\ poPc = "threw" =>
       /\ poResult = <<>>
       /\ poError \in {PollNetworkError, PollHttpError(StatusError), JobFailedError,
                       PollTimeoutError}
       /\ (poError = PollTimeoutError) => (poAttempt = MAX_POLL_ATTEMPTS)
       /\ (poError # PollTimeoutError) => (poAttempt >= 1)

\* C33: pollCrawl issues at most 150 polls and ends in one of three ways: it
\* returns the data of all polls so far, one after the other, when a poll
\* reports completed; it throws and returns no page when a poll reports
\* failed or answers with an error status; it throws the timeout error after
\* 150 polls none of which reported completed or failed.
C33_PollEnds == []PollOutcome /\ <>(poPc \in {"returned", "threw"})

\* C33 witness: the job completed at a later poll and the call returned the
\* three pages reported over several polls, the page of the last poll included.
C33_Witness ==
  /\ poPc = "returned"
  /\ poAttempt = 3
  /\ poResult = <<"a", "b", "a">>

\* C33 witness: 150 polls reported a job still scraping and the call threw
\* the timeout error.
C33_TimeoutWitness ==
  /\ poPc = "threw"
  /\ poError = PollTimeoutError
  /\ poAttempt = MAX_POLL_ATTEMPTS
  /\ poServed = <<"a">>

\* ------------------------------------ cli: run, overrides and AI enrichment

\* Longest list of fetch results the stage is given.
MaxOvPages == 2

\* The pages the fetchers yield: the home page, a pricing page and an about page.
OvHome == <<"https://example.com", "/">>
OvPricing == <<"https://example.com", "/", "pricing">>
OvPageRecords ==
  { Page(OvHome, <<"Home">>, <<"Welcome">>, Empty),
    Page(OvPricing, <<"Pricing">>, <<"Our", " ", "plans">>, <<"Plans">>),
    Page(<<"https://example.com", "/", "about">>, <<"About">>, Empty, <<"About", " ", "us">>) }

\* What an entry of config.overrides sets: a title, a description, or a title
\* that ends with a separator and the title of the home page together with a
\* description.  An empty field is one the entry leaves out.
OverrideEntries ==
  { [title |-> <<"Custom">>, description |-> Empty],
    [title |-> Empty, description |-> <<"Configured", " ", "description.">>],
    [title |-> <<"Plans", " ", "|", " ", "Home">>,
     description |-> <<"Configured", " ", "description.">>] }

\* config.overrides: missing, or one entry for the home page or the pricing page.
OverrideConfigs ==
  { <<>> } \cup { [u \in {url} |-> o] : url \in {OvHome, OvPricing}, o \in OverrideEntries }

\* What the provider does with a request of the stage: it fails, answers
\* without a text, with a text, or with blanks.
OvProviderReplies ==
  { r \in AiReplies :
      \/ r.kind \in {"network", "no text"}
      \/ r.kind = "text" /\ r.text \in { <<"AI", " ", "generated", " ", "description.">>,
                                          <<" ", " ">> } }

\* { ...p, ...override } and Object.assign(data, override) for
\* override = config.overrides?.[p.url]: the fields the entry sets replace
\* those of the page.
ApplyOverride(p, overrides) ==
  IF p.url \in DOMAIN overrides
  THEN LET o == overrides[p.url]
       IN  [p EXCEPT !.title = IF o.title # Empty THEN o.title ELSE @,
                     !.description = IF o.description # Empty THEN o.description ELSE @]
  ELSE p

\* pages.filter(p => p !== null), as page records.
NonNullPages(results) ==
  LET kept == SelectSeq(results, LAMBDA r : ~r.isNull)
  IN  [i \in 1..Len(kept) |-> kept[i].data]

\* generateDescriptions(pages, provider, apiKey), the provider doing
\* replies[i] with the request for page i.
RECURSIVE generateDescriptions(_, _)
generateDescriptions(pages, replies) ==
  IF pages = <<>> THEN <<>>
  ELSE LET r == callProvider(Head(replies))
       IN  (IF r.threw THEN KeepPage(Head(pages))
            ELSE <<Described(Head(pages), r.text)>>)
             \o generateDescriptions(Tail(pages), Tail(replies))

\* run has its fetch results: the pages of a Firecrawl job, or one result per
\* discovered URL.
OvInit ==
  /\ ovMode \in {"firecrawl", "browser", "plain"}
  /\ ovRaw \in SeqsUpTo({Null} \cup { NonNull(p) : p \in OvPageRecords }, MaxOvPages)
  /\ ovMode = "firecrawl" => \A i \in 1..Len(ovRaw) : ~ovRaw[i].isNull
  /\ ovExcluded \in (IF ovMode = "firecrawl" THEN {{}, {OvPricing}} ELSE {{}})
  /\ ovOverrides \in OverrideConfigs
  /\ ovAi \in {"none", "unknown", "no key", "key"}
  /\ ovPc = "start"
  /\ ovValid = <<>>
  /\ ovReplies = <<>>
  /\ ovFinal = <<>>
  /\ ovDoc = <<>>

\* The configuration and the options, which no step changes.
ovInputs == <<ovMode, ovRaw, ovExcluded, ovOverrides, ovAi>>

\* --firecrawl: the excluded pages are filtered out of rawPages and the
\* overrides are spread over the others.
OvFirecrawl ==
  /\ ovPc = "start"
  /\ ovMode = "firecrawl"
  /\ LET kept == NotExcluded(NonNullPages(ovRaw), ovExcluded)
     IN  ovValid' = [i \in 1..Len(kept) |-> ApplyOverride(kept[i], ovOverrides)]
  /\ ovPc' = "valid"
  /\ UNCHANGED <<ovInputs, ovReplies, ovFinal, ovDoc, ovOthers>>

\* --browser: the nulls are filtered out of the rendered pages and the
\* overrides are spread over the others.
OvBrowser ==
  /\ ovPc = "start"
  /\ ovMode = "browser"
  /\ LET kept == NonNullPages(ovRaw)
     IN  ovValid' = [i \in 1..Len(kept) |-> ApplyOverride(kept[i], ovOverrides)]
  /\ ovPc' = "valid"
  /\ UNCHANGED <<ovInputs, ovReplies, ovFinal, ovDoc, ovOthers>>

\* Neither: the callback of processInBatches assigns the override to the
\* record it extracted, and the nulls are filtered out afterwards.
OvPlain ==
  /\ ovPc = "start"
  /\ ovMode = "plain"
  /\ LET pages == [i \in 1..Len(ovRaw) |->
                     IF ovRaw[i].isNull THEN Null
                     ELSE NonNull(ApplyOverride(ovRaw[i].data, ovOverrides))]
     IN  ovValid' = NonNullPages(pages)
  /\ ovPc' = "valid"
  /\ UNCHANGED <<ovInputs, ovReplies, ovFinal, ovDoc, ovOthers>>

\* Without --ai, or with a provider whose key is not set (a warning is
\* printed): finalPages = validPages.
OvNoAi ==
  /\ ovPc = "valid"
  /\ ovAi \in {"none", "no key"}
  /\ ovFinal' = ovValid
  /\ ovPc' = "final"
  /\ UNCHANGED <<ovInputs, ovValid, ovReplies, ovDoc, ovOthers>>

\* --ai names no known provider: run prints the error and exits.
OvUnknownProvider ==
  /\ ovPc = "valid"
  /\ ovAi = "unknown"
  /\ ovPc' = "exit"
  /\ UNCHANGED <<ovInputs, ovValid, ovReplies, ovFinal, ovDoc, ovOthers>>

\* finalPages = await generateDescriptions(validPages, provider, apiKey).
OvEnrich ==
  /\ ovPc = "valid"
  /\ ovAi = "key"
  /\ \E replies \in [1..Len(ovValid) -> OvProviderReplies] :
       /\ ovReplies' = replies
       /\ ovFinal' = generateDescriptions(ovValid, replies)
  /\ ovPc' = "final"
  /\ UNCHANGED <<ovInputs, ovValid, ovDoc, ovOthers>>

\* The site name and description are taken from the home page of finalPages
\* and llm.txt is formatted.
OvFormat ==
  /\ ovPc = "final"
  /\ \E now \in Clock :
       ovDoc' = formatLlmTxt(RunSiteName(ovFinal), RunSiteDescription(ovFinal),
                             ovFinal, now)
  /\ ovPc' = "done"
  /\ UNCHANGED <<ovInputs, ovValid, ovReplies, ovFinal, ovOthers>>

OvNext ==
  \/ OvFirecrawl
  \/ OvBrowser
  \/ OvPlain
  \/ OvNoAi
  \/ OvUnknownProvider
  \/ OvEnrich
  \/ OvFormat

InitOverride == OvInit /\ CrawlIdle /\ SmIdle /\ FmtIdle /\ DsIdle /\ RunIdle /\ FtIdle /\ AiIdle /\ FullIdle /\ CtIdle /\ OutIdle /\ ExIdle /\ PoIdle

SpecOverride == InitOverride /\ [][OvNext]_vars

\* ------------------------------------------ overrides and enrichment: claims

\* The fetch results run keeps: the pages that are not null and, with
\* --firecrawl, not excluded.
OvKept ==
  SelectSeq(ovRaw, LAMBDA r : ~r.isNull /\ r.data.url \notin ovExcluded)

\* Enrichment returned a non-empty description for page i of validPages.
EnrichedAt(i) ==
  /\ ovAi = "key"
  /\ ovReplies[i].kind = "text"
  /\ ovReplies[i].status = StatusOk
  /\ ~AllBlank(ovReplies[i].text)

\* C36: in every fetch mode the overrides are applied before AI enrichment.
\* finalPages has one record per page kept, in order; a page whose URL has an
\* override with a title carries that title, and the document lists it under
\* that title as cleanTitle renders it; a page whose URL has an override with
\* a description carries the description enrichment returned when that is
\* non-empty, and the configured one otherwise.
C36_OverridesBeforeEnrichment ==
  ovPc \in {"final", "done"} =>
    /\ Len(ovFinal) = Len(OvKept)
    /\ \A i \in 1..Len(ovFinal) :
         LET raw == OvKept[i].data
             p   == ovFinal[i]
         IN  /\ p.url = raw.url
             /\ raw.url \in DOMAIN ovOverrides =>
                  LET o == ovOverrides[raw.url]
                  IN  /\ o.title # Empty =>
                           /\ p.title = o.title
                           /\ ovPc = "done" =>
                                \E k \in 1..Len(ovDoc) :
                                  /\ ovDoc[k].kind = "page"
                                  /\ ovDoc[k].url = p.url
                                  /\ ovDoc[k].text
                                       = cleanTitle(o.title, RunSiteName(ovFinal))
                      /\ o.description # Empty =>
                           p.description = (IF EnrichedAt(i)
                                            THEN Trim(ovReplies[i].text)
                                            ELSE o.description)

\* C36 witness: without --firecrawl and --browser, the pricing page has an
\* override with a title and a description, enrichment described it, and the
\* document lists it with the configured title and the generated description.
C36_Witness ==
  /\ ovPc = "done"
  /\ ovMode = "plain"
  /\ OvPricing \in DOMAIN ovOverrides
  /\ ovOverrides[OvPricing].title # Empty
  /\ ovOverrides[OvPricing].description # Empty
  /\ \E i \in 1..Len(ovFinal) :
       /\ ovFinal[i].url = OvPricing
       /\ EnrichedAt(i)
       /\ ovFinal[i].title = ovOverrides[OvPricing].title
       /\ ovFinal[i].description = <<"AI", " ", "generated", " ", "description.">>
       /\ \E k \in 1..Len(ovDoc) :
            /\ ovDoc[k].url = OvPricing
            /\ ovDoc[k].text = ovOverrides[OvPricing].title
            /\ ovDoc[k].desc = ovFinal[i].description

\* C36: with --firecrawl, the provider failed for a page with a configured
\* description, and the document carries the configured description.
C36_KeptWitness ==
  /\ ovPc = "done"
  /\ ovMode = "firecrawl"
  /\ ovAi = "key"
  /\ \E i \in 1..Len(ovFinal) :
       /\ ovFinal[i].url \in DOMAIN ovOverrides
       /\ ovOverrides[ovFinal[i].url].description # Empty
       /\ ovReplies[i].kind = "network"
       /\ ovFinal[i].description = ovOverrides[ovFinal[i].url].description
       /\ \E k \in 1..Len(ovDoc) :
            ovDoc[k].kind = "page" /\ ovDoc[k].desc = ovFinal[i].description

====
